---- MODULE Spec2Model ----
(***************************************************************************)
(* Boundary router of RNodeTHV4: the framed TCP transport                  *)
(* (src/TcpInterface.h) and the routing tables of the patched              *)
(* microReticulum Transport (src/MICRORETICULUM_BUGS.md, README).          *)
(*                                                                         *)
(* Byte strings are kept run-length encoded: a payload is a sequence of    *)
(* runs [b |-> byte, n |-> count] in which neighbouring runs differ in b,  *)
(* a wire string is a sequence of runs [pat |-> bytes, n |-> count].  The  *)
(* code is still applied byte by byte; only the storage is compressed.     *)
(***************************************************************************)
EXTENDS Integers, Sequences, FiniteSets, TLC

\* ------------------------------------------------------------------------
\* Program constants (src/TcpInterface.h:26-44)
\* ------------------------------------------------------------------------
TCP_IF_MAX_CLIENTS == 8
TCP_IF_HW_MTU == 1064
TCP_IF_READ_TIMEOUT == 120000
TCP_IF_RECONNECT_MIN == 10000
TCP_IF_RECONNECT_MAX == 120000
TCP_IF_KEEPALIVE_INTERVAL == 30000
HDLC_FLAG == 126
HDLC_ESC == 125
HDLC_ESC_MASK == 32
TCP_IF_MODE_SERVER == 0
TCP_IF_MODE_CLIENT == 1
\* sizeof(frame_buf) in send_outgoing
FRAME_BUF_SIZE == TCP_IF_HW_MTU * 2 + 4
\* _consecutive_failures is a uint16_t
U16 == 65536

\* ------------------------------------------------------------------------
\* Bounds of the model
\* ------------------------------------------------------------------------
\* connections accepted in one run of the server-role specification
MaxAccepts == 3
\* traced read steps in one run of the framing specification
MaxRuns == 6
\* start() calls in one run
MaxStarts == 1
\* last clock value of the client-role specification, in ms
MaxNow == 400000
\* _connect_client calls in one run
MaxConnects == 6
\* last clock value of the loop specification, in ms
MaxLoopNow == 200000
\* reads before the round trip in the framing round-trip specification
MaxRoundRuns == 3
\* connections that arrive in the accept specification
MaxArrivals == 9
\* reads on the first slot in the accept specification
MaxAcceptReads == 2
\* the retry specification: attempts that may fail, the time up to which
\* the connection may be lost and WiFi may be down, and the last clock value
MaxRetryFailures == 2
MaxLossNow == 80000
MaxRetryNow == 320000
\* connections that arrive and last clock value in the keepalive specification
MaxKaAccepts == 2
MaxKaNow == 130000
\* reads in the specification of two interleaved connections
MaxMuxReads == 5
\* the slot-count specification: start() calls, connections that arrive,
\* _connect_client calls and the last clock value
MaxCountStarts == 2
MaxCountAccepts == 2
MaxCountConnects == 2
MaxCountNow == 260000
\* the specification of refilled slots: start() calls, connections made
\* and reads
MaxSlotStarts == 2
MaxSlotAccepts == 2
MaxSlotReads == 5
\* bytes past the MTU in the payloads of the stuffing specification
MaxOverMtu == 2
\* the specification of the 32-bit clock: connections that arrive, and the
\* last clock value, counted from two read timeouts before 2^32
MaxWrapAccepts == 2
MaxWrapNow == 600000
\* reads in the specification of answered packets
MaxReplyReads == 3
\* reads in the specification of sends between deliveries
MaxSendReads == 3
\* reads in the frame-order specification
MaxOrderReads == 4
\* _connect_client calls and last clock value in the address-cache specification
MaxCacheConnects == 4
MaxCacheNow == 200000

Slots == 0 .. (TCP_IF_MAX_CLIENTS - 1)
\* the clock advances in steps of twice the minimum reconnect interval
TickSteps == {2 * TCP_IF_RECONNECT_MIN}
\* addresses a DNS lookup can return
Addresses == {1}
\* results of WiFiClient::write: 0 bytes, fewer than flen, all of flen
WriteResults == {"zero", "partial", "full"}

VARIABLES
    mode,                 \* _mode
    target_host,          \* _target_host[0] != '\0'
    started,              \* _started
    clients,              \* _clients[]
    num_clients,          \* _num_clients
    last_rx_client_idx,   \* _last_rx_client_idx
    last_reconnect,       \* _last_reconnect
    last_keepalive,       \* _last_keepalive
    reconnect_interval,   \* _reconnect_interval
    read_timeout,         \* _read_timeout
    resolved_ip,          \* _resolved_ip (0 = none)
    consecutive_failures, \* _consecutive_failures
    now,                  \* millis()
    h_ref,                \* history: the reference reading of each slot's byte stream
    h_delivered,          \* history: payloads the last read handed to handle_incoming, per slot
    h_bcast,              \* history: the send_outgoing broadcast of the last step, if any
    h_connect,            \* history: calls of _connect_client and the last outcome
    n_accept, n_read, n_start,
    os_time,              \* OS::time(), in seconds
    destination_table,    \* Transport::_destination_table
    link_table,           \* Transport::_link_table
    h_path,               \* history: the path-table upsert of the last step, if any
    h_link,               \* history: the link-table operation of the last step, if any
    lr,                   \* a link request being forwarded, and what was sent on
    n_tick,
    packet_hashlist,      \* Transport::_packet_hashlist, oldest first
    reverse_table,        \* Transport::_reverse_table
    announce_cache,       \* hashes whose announce packet is cached
    pending_local_path_requests, \* Transport::_pending_local_path_requests
    h_requested,          \* history: hashes a narrow interface has asked a path for
    h_in,                 \* history: what inbound() did with the packet of the last step
    h_loop,               \* history: the failed writes and timeouts loop() met in the last step
    registered,           \* the interfaces handed to Transport::register_interface, in order
    interfaces,           \* Transport::_interfaces: interface hash -> interface
    router_running,       \* the router has been started
    h_routed,             \* history: the outbound interface looked up in the last step
    h_round,              \* history: a payload framed and read back, and what was delivered
    h_served,             \* history: when each slot was connected or last written a keepalive
    boundary_local_addresses \* Transport::_boundary_local_addresses

tcpVars == <<mode, target_host, started, clients, num_clients, last_rx_client_idx,
             last_reconnect, last_keepalive, reconnect_interval, read_timeout,
             resolved_ip, consecutive_failures, now>>
histVars == <<h_ref, h_delivered, h_connect, n_accept, n_read, n_start>>
routerVars == <<os_time, destination_table, link_table, h_path, h_link, lr, n_tick>>
inboundVars == <<packet_hashlist, reverse_table, announce_cache,
                 pending_local_path_requests, h_requested, h_in>>
regVars == <<registered, interfaces, router_running, h_routed>>
localVars == <<boundary_local_addresses>>
vars == <<tcpVars, histVars, h_bcast, h_loop, routerVars, inboundVars, regVars, h_round,
          h_served, localVars>>

\* ------------------------------------------------------------------------
\* Byte strings
\* ------------------------------------------------------------------------
Min(a, b) == IF a < b THEN a ELSE b

\* the clock value from which the 32-bit specification counts
WrapBase == [hi |-> U16 - 1 - ((2 * TCP_IF_READ_TIMEOUT) \div U16),
             lo |-> U16 - ((2 * TCP_IF_READ_TIMEOUT) % U16)]

\* millis() - since, in uint32_t.  The clock of the model is monotonic and
\* stays below 2^31, so every stored time is at most now and the unsigned
\* difference is the plain one.
Elapsed(since) == now - since

\* byte ^ HDLC_ESC_MASK
Xor20(byte) == IF (byte \div HDLC_ESC_MASK) % 2 = 1
               THEN byte - HDLC_ESC_MASK ELSE byte + HDLC_ESC_MASK

RECURSIVE PayLen(_)
PayLen(p) == IF p = <<>> THEN 0 ELSE Head(p).n + PayLen(Tail(p))

\* buf[len++] = byte
AppendByte(buf, byte) ==
    IF buf # <<>> /\ buf[Len(buf)].b = byte
    THEN [buf EXCEPT ![Len(buf)].n = @ + 1]
    ELSE Append(buf, [b |-> byte, n |-> 1])

AppendPat(buf, pat) ==
    IF buf # <<>> /\ buf[Len(buf)].pat = pat
    THEN [buf EXCEPT ![Len(buf)].n = @ + 1]
    ELSE Append(buf, [pat |-> pat, n |-> 1])

NoClient == [active |-> FALSE, connected |-> FALSE, in_frame |-> FALSE,
             escape |-> FALSE, truncated |-> FALSE, rxlen |-> 0, rxbuf |-> <<>>,
             last_activity |-> 0]

NoRound == [state |-> "none"]

\* in_frame, escape, truncated, rxlen and the buffer of a connection
Framing(c) == [in_frame |-> c.in_frame, escape |-> c.escape,
               truncated |-> c.truncated, rxlen |-> c.rxlen, rxbuf |-> c.rxbuf]

\* variant: a slot is filled without its framing state being reset
fresh_framing_kept(c) == c

\* in_frame = false; escape = false; truncated = false; rxlen = 0;
fresh_framing(c) == [c EXCEPT !.in_frame = FALSE,
                              !.escape = FALSE,
                              !.truncated = FALSE,
                              !.rxlen = 0,
                              !.rxbuf = <<>>]

NoBcast == [k |-> -1, pre |-> {}, calls |-> {}, got |-> {}, zero |-> {}, torn |-> {},
            data |-> <<>>]

\* ------------------------------------------------------------------------
\* TcpInterface::_cleanup_client
\* ------------------------------------------------------------------------
\* variant: a cleanup that leaves _num_clients as it is
cleanup_client_keeps_count(s, idx) ==
    IF ~s.clients[idx].active THEN s
    ELSE [s EXCEPT !.clients[idx] = [@ EXCEPT !.connected = FALSE,
                                               !.active = FALSE,
                                               !.in_frame = FALSE,
                                               !.escape = FALSE,
                                               !.truncated = FALSE,
                                               !.rxlen = 0,
                                               !.rxbuf = <<>>]]

cleanup_client(s, idx) ==
    IF ~s.clients[idx].active THEN s
    ELSE [s EXCEPT !.clients[idx] = [@ EXCEPT !.connected = FALSE,
                                               !.active = FALSE,
                                               !.in_frame = FALSE,
                                               !.escape = FALSE,
                                               !.truncated = FALSE,
                                               !.rxlen = 0,
                                               !.rxbuf = <<>>],
                   !.num_clients = @ - 1]

\* ------------------------------------------------------------------------
\* TcpInterface::send_outgoing
\* ------------------------------------------------------------------------
\* the stuffing loop without the stuffing: every byte is copied as it is
frame_byte_raw(f, byte) ==
    IF f.brk THEN f
    ELSE LET f1 == [f EXCEPT !.buf = AppendPat(@, <<byte>>),
                             !.flen = @ + 1,
                             !.taken = @ + 1]
         IN [f1 EXCEPT !.brk = (f1.flen >= FRAME_BUF_SIZE - 4)]

\* variant: the safety break one stuffed byte earlier
frame_full_early(flen) == flen >= FRAME_BUF_SIZE - 6

\* if (flen >= sizeof(frame_buf) - 4) break;
frame_full(flen) == flen >= FRAME_BUF_SIZE - 4

\* one iteration of the stuffing loop; f.brk is the safety break and
\* f.taken the number of payload bytes the loop has put into the frame
frame_byte(f, byte) ==
    IF f.brk THEN f
    ELSE LET f1 == IF byte = HDLC_FLAG \/ byte = HDLC_ESC
                   THEN [f EXCEPT !.buf = AppendPat(@, <<HDLC_ESC, Xor20(byte)>>),
                                  !.flen = @ + 2,
                                  !.taken = @ + 1]
                   ELSE [f EXCEPT !.buf = AppendPat(@, <<byte>>),
                                  !.flen = @ + 1,
                                  !.taken = @ + 1]
         IN [f1 EXCEPT !.brk = frame_full(f1.flen)]

\* n equal payload bytes, stuffed in two halves; the test of the first
\* half's result only makes TLC finish the first half before the second
RECURSIVE frame_run(_, _, _)
frame_run(f, byte, n) ==
    IF n = 0 THEN f
    ELSE IF n = 1 THEN frame_byte(f, byte)
    ELSE LET half == frame_run(f, byte, n \div 2)
         IN IF half.flen >= 0 THEN frame_run(half, byte, n - (n \div 2)) ELSE half

RECURSIVE frame_data(_, _)
frame_data(f, data) ==
    IF data = <<>> THEN f
    ELSE frame_data(frame_run(f, Head(data).b, Head(data).n), Tail(data))

hdlc_frame(data) ==
    LET f0 == [buf |-> <<[pat |-> <<HDLC_FLAG>>, n |-> 1]>>, flen |-> 1, brk |-> FALSE,
               taken |-> 0]
        f1 == frame_data(f0, data)
    IN [buf |-> AppendPat(f1.buf, <<HDLC_FLAG>>), flen |-> f1.flen + 1,
        taken |-> f1.taken]

\* the write loop; wres[i] is what client.write returns on slot i
RECURSIVE send_loop(_, _, _, _)
send_loop(s, i, frame, wres) ==
    IF i = TCP_IF_MAX_CLIENTS THEN s
    ELSE LET c == s.clients[i]
             s1 == IF i = s.last_rx THEN s
                   ELSE IF c.active /\ c.connected
                        THEN LET sw == [s EXCEPT !.bcast.calls = @ \cup {i},
                                                 !.bcast.got = IF wres[i] = "full"
                                                               THEN @ \cup {i} ELSE @,
                                                 !.bcast.zero = IF wres[i] = "zero"
                                                                THEN @ \cup {i} ELSE @]
                             IN IF wres[i] = "zero"
                                THEN [cleanup_client(sw, i) EXCEPT !.bcast.torn = @ \cup {i}]
                                ELSE sw
                        ELSE s
         IN send_loop(s1, i + 1, frame, wres)

\* variant: the write loop before v1.0.10, without echo prevention
send_outgoing_echo(s, data, wres) ==
    IF ~s.started \/ s.num_clients = 0 THEN s
    ELSE LET s0 == [s EXCEPT !.bcast = [k |-> s.last_rx,
                                        pre |-> {i \in Slots : s.clients[i].active
                                                              /\ s.clients[i].connected},
                                        calls |-> {}, got |-> {}, zero |-> {},
                                        torn |-> {},
                                        data |-> data]]
         IN [send_loop([s0 EXCEPT !.last_rx = -1], 0, hdlc_frame(data), wres)
                EXCEPT !.last_rx = s.last_rx]

send_outgoing(s, data, wres) ==
    IF ~s.started \/ s.num_clients = 0 THEN s
    ELSE LET s0 == [s EXCEPT !.bcast = [k |-> s.last_rx,
                                        pre |-> {i \in Slots : s.clients[i].active
                                                              /\ s.clients[i].connected},
                                        calls |-> {}, got |-> {}, zero |-> {},
                                        torn |-> {},
                                        data |-> data]]
         IN send_loop(s0, 0, hdlc_frame(data), wres)

\* ------------------------------------------------------------------------
\* TcpInterface::handle_incoming: the packet goes to Transport::inbound,
\* which may forward it on this same interface before it returns.
\* ------------------------------------------------------------------------
\* variant: the packet is put before the ones handed over earlier
handle_incoming_lifo(s, data, react) ==
    LET s1 == [s EXCEPT !.delivered = <<[idx |-> s.last_rx, data |-> data]>> \o @]
    IN IF react.fwd THEN send_outgoing(s1, data, react.wres) ELSE s1

\* react.reply, where there is one, is a packet of its own that Transport
\* sends on this interface before it returns, such as the answer to a path
\* request
handle_incoming(s, data, react) ==
    LET s1 == [s EXCEPT !.delivered = Append(@, [idx |-> s.last_rx, data |-> data])]
        s2 == IF react.fwd THEN send_outgoing(s1, data, react.wres) ELSE s1
    IN IF "reply" \in DOMAIN react
       THEN send_outgoing(s2, react.reply, react.wres)
       ELSE s2

\* ------------------------------------------------------------------------
\* TcpInterface::_hdlc_deframe
\* ------------------------------------------------------------------------
\* variant: the deframer before v1.0.12, which never marks a frame truncated
hdlc_deframe_silent(s, idx, byte, react) ==
    LET c == s.clients[idx] IN
    IF byte = HDLC_FLAG
    THEN LET s1 == IF c.in_frame /\ c.rxlen > 0
                   THEN LET sd == handle_incoming([s EXCEPT !.last_rx = idx], c.rxbuf, react)
                        IN [sd EXCEPT !.last_rx = -1,
                                      !.clients[idx].rxlen = 0,
                                      !.clients[idx].rxbuf = <<>>]
                   ELSE s
         IN [s1 EXCEPT !.clients[idx].in_frame = TRUE,
                       !.clients[idx].escape = FALSE,
                       !.clients[idx].rxlen = 0,
                       !.clients[idx].rxbuf = <<>>]
    ELSE IF c.in_frame
    THEN IF c.escape
         THEN IF c.rxlen < TCP_IF_HW_MTU
              THEN [s EXCEPT !.clients[idx].escape = FALSE,
                             !.clients[idx].rxbuf = AppendByte(@, Xor20(byte)),
                             !.clients[idx].rxlen = @ + 1]
              ELSE [s EXCEPT !.clients[idx].escape = FALSE]
         ELSE IF byte = HDLC_ESC
         THEN [s EXCEPT !.clients[idx].escape = TRUE]
         ELSE IF c.rxlen < TCP_IF_HW_MTU
              THEN [s EXCEPT !.clients[idx].rxbuf = AppendByte(@, byte),
                             !.clients[idx].rxlen = @ + 1]
              ELSE s
    ELSE s

\* variant: the index of the delivering slot stays set after the hand-over
end_delivery_keeps_idx(s) == s

\* _last_rx_client_idx = -1;
end_delivery(s) == [s EXCEPT !.last_rx = -1]

\* variant: a flag ends a frame whether or not bytes were received
frame_pending_any(c) == c.in_frame

\* if (c.in_frame && c.rxlen > 0)
frame_pending(c) == c.in_frame /\ c.rxlen > 0

\* variant: the buffer test off by one
has_room_one_more(c) == c.rxlen <= TCP_IF_HW_MTU

\* if (c.rxlen < TCP_IF_HW_MTU)
has_room(c) == c.rxlen < TCP_IF_HW_MTU

hdlc_deframe(s, idx, byte, react) ==
    LET c == s.clients[idx] IN
    IF byte = HDLC_FLAG
    THEN LET s1 == IF frame_pending(c)
                   THEN IF c.truncated
                        THEN [s EXCEPT !.clients[idx].truncated = FALSE,
                                       !.clients[idx].rxlen = 0,
                                       !.clients[idx].rxbuf = <<>>]
                        ELSE LET sd == handle_incoming([s EXCEPT !.last_rx = idx],
                                                       c.rxbuf, react)
                             IN [end_delivery(sd) EXCEPT !.clients[idx].rxlen = 0,
                                                         !.clients[idx].rxbuf = <<>>]
                   ELSE s
         IN [s1 EXCEPT !.clients[idx].in_frame = TRUE,
                       !.clients[idx].escape = FALSE,
                       !.clients[idx].truncated = FALSE,
                       !.clients[idx].rxlen = 0,
                       !.clients[idx].rxbuf = <<>>]
    ELSE IF c.in_frame
    THEN IF c.escape
         THEN IF has_room(c)
              THEN [s EXCEPT !.clients[idx].escape = FALSE,
                             !.clients[idx].rxbuf = AppendByte(@, Xor20(byte)),
                             !.clients[idx].rxlen = @ + 1]
              ELSE [s EXCEPT !.clients[idx].escape = FALSE,
                             !.clients[idx].truncated = TRUE]
         ELSE IF byte = HDLC_ESC
         THEN [s EXCEPT !.clients[idx].escape = TRUE]
         ELSE IF has_room(c)
              THEN [s EXCEPT !.clients[idx].rxbuf = AppendByte(@, byte),
                             !.clients[idx].rxlen = @ + 1]
              ELSE [s EXCEPT !.clients[idx].truncated = TRUE]
    ELSE s

\* variant: one framing state, that of slot 0, for all the connections
RECURSIVE read_bytes_shared(_, _, _, _, _)
read_bytes_shared(s, idx, bytes, t, react) ==
    IF bytes = <<>> THEN s
    ELSE read_bytes_shared(hdlc_deframe([s EXCEPT !.clients[idx].last_activity = t],
                                        0, Head(bytes), react),
                           idx, Tail(bytes), t, react)

\* the read loop of TcpInterface::loop over the bytes of one wire run:
\* last_activity = millis(); _hdlc_deframe(i, byte)
RECURSIVE read_bytes(_, _, _, _, _)
read_bytes(s, idx, bytes, t, react) ==
    IF bytes = <<>> THEN s
    ELSE read_bytes(hdlc_deframe([s EXCEPT !.clients[idx].last_activity = t],
                                 idx, Head(bytes), react),
                    idx, Tail(bytes), t, react)

\* n repetitions of pat, read in two halves; the test of the first half's
\* result only makes TLC finish the first half before it starts the second
RECURSIVE read_run(_, _, _, _, _, _)
read_run(s, idx, pat, n, t, react) ==
    IF n = 0 THEN s
    ELSE IF n = 1 THEN read_bytes(s, idx, pat, t, react)
    ELSE LET half == read_run(s, idx, pat, n \div 2, t, react)
         IN IF half.num_clients >= 0
            THEN read_run(half, idx, pat, n - (n \div 2), t, react)
            ELSE half

\* ------------------------------------------------------------------------
\* The interface state that the operators above thread through
\* ------------------------------------------------------------------------
Iface == [started |-> started, clients |-> clients, num_clients |-> num_clients,
          last_rx |-> last_rx_client_idx, delivered |-> <<>>, bcast |-> NoBcast]

\* payloads delivered from slot i, in order
RECURSIVE DeliveredOf(_, _)
DeliveredOf(log, i) ==
    IF log = <<>> THEN <<>>
    ELSE IF Head(log).idx = i THEN <<Head(log).data>> \o DeliveredOf(Tail(log), i)
    ELSE DeliveredOf(Tail(log), i)

SetIface(s) ==
    /\ clients' = s.clients
    /\ num_clients' = s.num_clients
    /\ last_rx_client_idx' = s.last_rx
    /\ h_bcast' = s.bcast


\* ------------------------------------------------------------------------
\* Reference reading of a byte stream: the frames between flag bytes,
\* destuffed, with no limit on their length
\* ------------------------------------------------------------------------
ref_byte(t, byte) ==
    IF byte = HDLC_FLAG
    THEN [t EXCEPT !.inf = TRUE, !.esc = FALSE, !.cur = <<>>,
                   !.out = IF t.inf /\ t.cur # <<>> THEN Append(t.out, t.cur) ELSE t.out,
                   !.empties = IF t.inf /\ t.cur = <<>> THEN @ + 1 ELSE @]
    ELSE IF ~t.inf THEN t
    ELSE IF t.esc THEN [t EXCEPT !.esc = FALSE, !.cur = AppendByte(@, Xor20(byte))]
    ELSE IF byte = HDLC_ESC THEN [t EXCEPT !.esc = TRUE]
    ELSE [t EXCEPT !.cur = AppendByte(@, byte)]

RECURSIVE ref_bytes(_, _)
ref_bytes(t, bytes) ==
    IF bytes = <<>> THEN t ELSE ref_bytes(ref_byte(t, Head(bytes)), Tail(bytes))

\* n data bytes that are neither flag nor escape, outside an escape
ref_plain(t, byte, n) ==
    IF ~t.inf THEN t
    ELSE [t EXCEPT !.cur = IF @ # <<>> /\ @[Len(@)].b = byte
                           THEN [@ EXCEPT ![Len(@)].n = @ + n]
                           ELSE Append(@, [b |-> byte, n |-> n])]

RECURSIVE ref_run(_, _, _)
ref_run(t, pat, n) ==
    IF n = 0 THEN t
    ELSE IF n = 1 THEN ref_bytes(t, pat)
    ELSE IF Len(pat) = 1 /\ pat[1] \notin {HDLC_FLAG, HDLC_ESC} /\ ~t.esc
         THEN ref_plain(t, pat[1], n)
    ELSE LET half == ref_run(t, pat, n \div 2)
         IN IF half.inf \in BOOLEAN THEN ref_run(half, pat, n - (n \div 2)) ELSE half

RefIdle == [inf |-> FALSE, esc |-> FALSE, cur |-> <<>>, out |-> <<>>,
            empties |-> 0, dropped |-> FALSE]

FitsMtu(p) == PayLen(p) <= TCP_IF_HW_MTU

\* the reference reading moved over one more run: out holds the frames
\* that ended in this run, empties counts the flags that ended a frame
\* without a byte in this run, dropped tells whether a frame too long for
\* HW_MTU has ended on the connection so far
ref_read(t, run) ==
    LET r == ref_run([t EXCEPT !.out = <<>>, !.empties = 0], run.pat, run.n)
    IN [r EXCEPT !.dropped = @ \/ \E k \in 1 .. Len(r.out) : ~FitsMtu(r.out[k])]

\* ------------------------------------------------------------------------
\* Transport: the tables of the router
\* ------------------------------------------------------------------------
NoPathOp == [kind |-> "none"]
NoLinkOp == [kind |-> "none"]
NoLr == [state |-> "none"]
NoInbound == [kind |-> "none", missed |-> {}]
NoAttempt == [made |-> FALSE]
\* found: the framing state that _accept_client or _connect_client found in
\* the slot it filled
\* pass: the step was a whole pass of loop() over the slots
NoLoop == [ka_failed |-> {}, timed_out |-> {}, handed |-> 0, rejected |-> FALSE,
           attempt |-> NoAttempt, skipped |-> FALSE, ka_sent |-> {},
           found |-> Framing(NoClient), pass |-> FALSE]
EmptyMap == [k \in {} |-> 0]

NoRoute == [kind |-> "none"]

\* the interfaces of the firmware: the radio, the backbone and the local
\* server, each under its own name
FirmwareInterfaces == <<"LoRaInterface", "TcpInterface", "LocalTcpInterface">>

\* the hash of an interface, made of its name
interface_hash(name) ==
    CASE name = "LoRaInterface" -> 71
      [] name = "TcpInterface" -> 72
      [] name = "LocalTcpInterface" -> 73
      [] name = "BackboneInterface" -> 74

\* the router running with the interfaces of the firmware
InterfacesUp ==
    /\ registered = FirmwareInterfaces
    /\ interfaces = [h \in {interface_hash(FirmwareInterfaces[k]) : k \in 1 .. 3} |->
                        CHOOSE k \in 1 .. 3 : interface_hash(FirmwareInterfaces[k]) = h]
    /\ router_running = TRUE
    /\ h_routed = NoRoute

\* the tables at this time with these paths and no links
TablesAt(paths, time) ==
    /\ os_time = time
    /\ destination_table = paths
    /\ link_table = EmptyMap
    /\ h_path = NoPathOp
    /\ h_link = NoLinkOp
    /\ lr = NoLr
    /\ n_tick = 0
    /\ packet_hashlist = <<>>
    /\ reverse_table = EmptyMap
    /\ announce_cache = {}
    /\ pending_local_path_requests = EmptyMap
    /\ h_requested = {}
    /\ h_in = NoInbound
    /\ h_loop = NoLoop
    /\ boundary_local_addresses = {}

\* the router at this time with these paths and no links
RouterAt(paths, time) == TablesAt(paths, time) /\ InterfacesUp

\* the router at time 0
RouterWith(paths) == RouterAt(paths, 0)

\* ------------------------------------------------------------------------
\* Construction (TcpInterface::TcpInterface)
\* ------------------------------------------------------------------------
\* zero: the value 0 of a uint32_t, in the form the clock is kept in
InitTcpWith(m, hosts, t0, failed, zero) ==
    /\ mode = m
    /\ target_host \in hosts
    /\ started = FALSE
    /\ clients = [i \in Slots |-> NoClient]
    /\ num_clients = 0
    /\ last_rx_client_idx = -1
    /\ last_reconnect = zero
    /\ last_keepalive = zero
    /\ consecutive_failures \in failed
    /\ reconnect_interval = IF consecutive_failures = 0
                            THEN TCP_IF_RECONNECT_MIN ELSE TCP_IF_RECONNECT_MAX
    /\ read_timeout = TCP_IF_READ_TIMEOUT
    /\ resolved_ip = 0
    /\ now = t0
    /\ h_ref = [i \in Slots |-> RefIdle]
    /\ h_delivered = [i \in Slots |-> <<>>]
    /\ h_bcast = NoBcast
    /\ h_connect = [calls |-> 0, result |-> "none", failed_before |-> 0]
    /\ n_accept = 0
    /\ n_read = 0
    /\ n_start = 0
    /\ h_round = NoRound
    /\ h_served = [i \in Slots |-> 0]

InitTcpFrom(m, hosts, t0, failed) == InitTcpWith(m, hosts, t0, failed, 0)

\* the interface made when millis() is t0, with m as its mode and its
\* target host set or not
InitTcpAt(m, hosts, t0) == InitTcpFrom(m, hosts, t0, {0})

\* the interface made when millis() is 0
InitTcp(m, hosts) == InitTcpAt(m, hosts, 0)

\* ------------------------------------------------------------------------
\* TcpInterface::_connect_client
\*   cached_ok: connect() to the cached address succeeds
\*   dns_ok, addr: hostByName succeeds and returns addr
\*   fresh_ok: connect() to the resolved address succeeds
\* ------------------------------------------------------------------------
\* variant: the doubling without the cap
next_backoff_uncapped(interval) == interval * 2

\* the exponential backoff of the failure branch (uint32_t; no wrap, as the
\* interval never exceeds TCP_IF_RECONNECT_MAX before it is doubled)
next_backoff(interval) ==
    IF interval * 2 > TCP_IF_RECONNECT_MAX THEN TCP_IF_RECONNECT_MAX ELSE interval * 2

\* a cache that is emptied by every attempt on the cached address
cache_after_attempt_always(ip, cached_ok) ==
    IF ip # 0 THEN 0 ELSE ip

\* _resolved_ip after the attempt on the cached address, if one is made
cache_after_attempt(ip, cached_ok) ==
    IF ip # 0 /\ ~cached_ok THEN 0 ELSE ip

connect_client(cached_ok, dns_ok, addr, fresh_ok) ==
    IF ~target_host
    THEN /\ h_loop' = NoLoop
         /\ UNCHANGED h_served
         /\ h_connect' = [calls |-> h_connect.calls + 1, result |-> "nohost",
                          failed_before |-> consecutive_failures]
         /\ UNCHANGED <<clients, num_clients, resolved_ip, consecutive_failures,
                        reconnect_interval, last_reconnect, h_ref, h_delivered>>
    ELSE LET used_cache == resolved_ip # 0
             connected1 == used_cache /\ cached_ok
             ip1 == cache_after_attempt(resolved_ip, cached_ok)
             ip2 == IF ~connected1 /\ dns_ok THEN addr ELSE ip1
             connected == connected1 \/ (~connected1 /\ dns_ok /\ fresh_ok)
         IN /\ resolved_ip' = ip2
            /\ h_loop' = [NoLoop EXCEPT !.attempt =
                             [made |-> TRUE,
                              used_cache |-> used_cache,
                              cached_failed |-> used_cache /\ ~cached_ok,
                              looked_up |-> ~connected1,
                              dns_failed |-> ~connected1 /\ ~dns_ok,
                              resolved |-> IF ~connected1 /\ dns_ok THEN addr ELSE 0,
                              fresh_failed |-> ~connected1 /\ dns_ok /\ ~fresh_ok],
                                     !.found = IF connected THEN Framing(clients[0])
                                               ELSE @]
            /\ IF connected
               THEN /\ clients' = [clients EXCEPT ![0] =
                                     [fresh_framing(@) EXCEPT !.connected = TRUE,
                                                              !.active = TRUE,
                                                              !.last_activity = now]]
                    /\ num_clients' = 1
                    /\ consecutive_failures' = 0
                    /\ reconnect_interval' = TCP_IF_RECONNECT_MIN
                    /\ h_ref' = [h_ref EXCEPT ![0] = RefIdle]
                    /\ h_delivered' = [h_delivered EXCEPT ![0] = <<>>]
                    /\ h_served' = [h_served EXCEPT ![0] = now]
               ELSE /\ UNCHANGED h_served
                    /\ consecutive_failures' = (consecutive_failures + 1) % U16
                    /\ reconnect_interval' = next_backoff(reconnect_interval)
                    /\ UNCHANGED <<clients, num_clients, h_ref, h_delivered>>
            /\ last_reconnect' = now
            /\ h_connect' = [calls |-> h_connect.calls + 1,
                             result |-> IF connected THEN "connected" ELSE "failed",
                             failed_before |-> consecutive_failures]

\* ------------------------------------------------------------------------
\* TcpInterface::start
\* ------------------------------------------------------------------------
StartUpTo(limit) ==
    /\ UNCHANGED <<routerVars, inboundVars, regVars, h_round, localVars>>
    /\ ~started
    /\ n_start < limit
    /\ n_start' = n_start + 1
    /\ started' = TRUE
    /\ IF mode = TCP_IF_MODE_SERVER
       THEN /\ h_loop' = NoLoop
            /\ UNCHANGED h_served
            /\ UNCHANGED <<clients, num_clients, resolved_ip, consecutive_failures,
                           reconnect_interval, last_reconnect, h_ref, h_delivered,
                           h_connect>>
       ELSE \E cached_ok, dns_ok, fresh_ok \in BOOLEAN : \E addr \in Addresses :
               connect_client(cached_ok, dns_ok, addr, fresh_ok)
    /\ h_bcast' = NoBcast
    /\ UNCHANGED <<mode, target_host, last_rx_client_idx, last_keepalive, read_timeout,
                   now, n_accept, n_read>>

Start == StartUpTo(MaxStarts)

\* ------------------------------------------------------------------------
\* TcpInterface::stop
\* ------------------------------------------------------------------------
Stop ==
    /\ UNCHANGED <<routerVars, inboundVars, regVars, h_round, localVars>>
    /\ UNCHANGED h_served
    /\ h_loop' = NoLoop
    /\ started
    /\ clients' = [i \in Slots |->
                     IF clients[i].active
                     THEN [clients[i] EXCEPT !.connected = FALSE, !.active = FALSE]
                     ELSE clients[i]]
    /\ started' = FALSE
    /\ num_clients' = 0
    /\ UNCHANGED <<mode, target_host, last_rx_client_idx, last_reconnect, last_keepalive,
                   reconnect_interval, read_timeout, resolved_ip, consecutive_failures,
                   now, histVars>>
    /\ h_bcast' = NoBcast

\* ------------------------------------------------------------------------
\* TcpInterface::loop, server accept + TcpInterface::_accept_client
\* ------------------------------------------------------------------------
FreeSlots == {i \in Slots : ~clients[i].active}

\* a slot search that takes the last slot when none is free
accept_slot_reuse(cs) ==
    IF \E j \in Slots : ~cs[j].active
    THEN CHOOSE j \in Slots : ~cs[j].active /\ \A k \in Slots : ~cs[k].active => j <= k
    ELSE TCP_IF_MAX_CLIENTS - 1

\* the slot search of _accept_client: the first inactive slot, -1 if none
accept_slot(cs) ==
    IF \E j \in Slots : ~cs[j].active
    THEN CHOOSE j \in Slots : ~cs[j].active /\ \A k \in Slots : ~cs[k].active => j <= k
    ELSE -1

AcceptClient(limit) ==
    /\ UNCHANGED <<routerVars, inboundVars, regVars, h_round, localVars>>
    /\ started
    /\ mode = TCP_IF_MODE_SERVER
    /\ n_accept < limit
    /\ n_accept' = n_accept + 1
    /\ \E i \in {accept_slot(clients)} :
       IF i >= 0
       THEN    /\ h_loop' = [NoLoop EXCEPT !.found = Framing(clients[i])]
               /\ clients' = [clients EXCEPT ![i] =
                                [fresh_framing(@) EXCEPT !.connected = TRUE,
                                                         !.active = TRUE,
                                                         !.last_activity = now]]
               /\ num_clients' = num_clients + 1
               /\ h_ref' = [h_ref EXCEPT ![i] = RefIdle]
               /\ h_delivered' = [h_delivered EXCEPT ![i] = <<>>]
               /\ h_served' = [h_served EXCEPT ![i] = now]
       ELSE    /\ h_loop' = [NoLoop EXCEPT !.rejected = TRUE]
               /\ UNCHANGED h_served
               /\ UNCHANGED <<clients, num_clients, h_ref, h_delivered>>
    /\ UNCHANGED <<mode, target_host, started, last_rx_client_idx, last_reconnect,
                   last_keepalive, reconnect_interval, read_timeout, resolved_ip,
                   consecutive_failures, now, h_connect, n_read, n_start>>
    /\ h_bcast' = NoBcast

\* the peer of slot i closes or loses its connection (environment)
PeerClose(i) ==
    /\ UNCHANGED <<routerVars, inboundVars, regVars, h_round, localVars>>
    /\ UNCHANGED h_served
    /\ h_loop' = NoLoop
    /\ clients[i].active
    /\ clients[i].connected
    /\ clients' = [clients EXCEPT ![i].connected = FALSE]
    /\ UNCHANGED <<mode, target_host, started, num_clients, last_rx_client_idx,
                   last_reconnect, last_keepalive, reconnect_interval, read_timeout,
                   resolved_ip, consecutive_failures, now, histVars>>
    /\ h_bcast' = NoBcast

\* ------------------------------------------------------------------------
\* TcpInterface::loop, per-client part
\* ------------------------------------------------------------------------
ReadTimedOut(i) ==
    /\ read_timeout > 0
    /\ clients[i].last_activity > 0
    /\ Elapsed(clients[i].last_activity) > read_timeout

LoopDisconnected(i) ==
    /\ UNCHANGED <<routerVars, inboundVars, regVars, h_round, localVars>>
    /\ UNCHANGED h_served
    /\ h_loop' = NoLoop
    /\ started
    /\ clients[i].active
    /\ ~clients[i].connected
    /\ SetIface(cleanup_client(Iface, i))
    /\ UNCHANGED <<mode, target_host, started, last_reconnect, last_keepalive,
                   reconnect_interval, read_timeout, resolved_ip, consecutive_failures,
                   now, h_ref, h_delivered, h_connect, n_accept, n_read, n_start>>

LoopReadTimeout(i) ==
    /\ UNCHANGED <<routerVars, inboundVars, regVars, h_round, localVars>>
    /\ UNCHANGED h_served
    /\ h_loop' = [NoLoop EXCEPT !.timed_out = {i}]
    /\ started
    /\ clients[i].active
    /\ clients[i].connected
    /\ ReadTimedOut(i)
    /\ SetIface(cleanup_client(Iface, i))
    /\ UNCHANGED <<mode, target_host, started, last_reconnect, last_keepalive,
                   reconnect_interval, read_timeout, resolved_ip, consecutive_failures,
                   now, h_ref, h_delivered, h_connect, n_accept, n_read, n_start>>

\* what Transport does with a packet it is handed: forward it on this
\* interface or not, and what the writes of that forward return
AllFull == [i \in Slots |-> "full"]
\* every write returns flen, or the write on one active slot returns less
WriteOutcomes ==
    {AllFull} \cup {[i \in Slots |-> IF i = j THEN r ELSE "full"] :
                       j \in {k \in Slots : clients[k].active},
                       r \in WriteResults \ {"full"}}
Reactions ==
    {[fwd |-> FALSE, wres |-> AllFull]} \cup {[fwd |-> TRUE, wres |-> w] : w \in WriteOutcomes}

\* traced: the bytes read and the payloads delivered are added to the
\* history of the slot, for at most MaxRuns reads
LoopRead(i, run, react, traced) ==
    /\ UNCHANGED <<routerVars, inboundVars, regVars, h_round, localVars>>
    /\ UNCHANGED h_served
    /\ h_loop' = NoLoop
    /\ started
    /\ clients[i].active
    /\ clients[i].connected
    /\ ~ReadTimedOut(i)
    /\ traced => n_read < MaxRuns
    /\ \E s \in {read_run(Iface, i, run.pat, run.n, now, react)} :
          /\ SetIface(s)
          /\ IF traced
             THEN /\ n_read' = n_read + 1
                  /\ h_ref' = [h_ref EXCEPT ![i] = ref_read(@, run)]
                  /\ h_delivered' = [j \in Slots |-> DeliveredOf(s.delivered, j)]
             ELSE UNCHANGED <<n_read, h_ref, h_delivered>>
    /\ UNCHANGED <<mode, target_host, started, last_reconnect, last_keepalive,
                   reconnect_interval, read_timeout, resolved_ip, consecutive_failures,
                   now, h_connect, n_accept, n_start>>

\* Transport sends a packet that came from another interface or a timer
SendOutgoing(data, wres) ==
    /\ UNCHANGED <<routerVars, inboundVars, regVars, h_round, localVars>>
    /\ UNCHANGED h_served
    /\ h_loop' = NoLoop
    /\ SetIface(send_outgoing(Iface, data, wres))
    /\ UNCHANGED <<mode, target_host, started, last_reconnect, last_keepalive,
                   reconnect_interval, read_timeout, resolved_ip, consecutive_failures,
                   now, h_ref, h_delivered, h_connect, n_accept, n_read, n_start>>

\* ------------------------------------------------------------------------
\* TcpInterface::loop, a pass in which the keepalive is due and no client
\* has bytes to read
\*   wres[i]: what client.write(ka, 2) returns on slot i
\*   closing: the slots whose socket a failed write leaves closed
\* ------------------------------------------------------------------------
\* variant: the keepalive goes to the first connection only
ka_targets_first(cs) ==
    {i \in Slots : /\ cs[i].active /\ cs[i].connected
                   /\ \A j \in Slots : (cs[j].active /\ cs[j].connected) => i <= j}

\* the slots the keepalive is written to
ka_targets(cs) == {i \in Slots : cs[i].active /\ cs[i].connected}

\* the keepalive writes; their results are not looked at
keepalive_loop(s, wres, closing) ==
    [s EXCEPT !.clients = [i \in Slots |->
        IF i \in ka_targets(s.clients)
           /\ wres[i] = "zero" /\ i \in closing
        THEN [s.clients[i] EXCEPT !.connected = FALSE]
        ELSE s.clients[i]]]

\* the per-client part for slots i and up, with nothing to read
RECURSIVE process_clients(_, _)
process_clients(s, i) ==
    IF i = TCP_IF_MAX_CLIENTS THEN s
    ELSE LET c == s.clients[i]
             s1 == IF ~c.active THEN s
                   ELSE IF ~c.connected THEN cleanup_client(s, i)
                   ELSE IF ReadTimedOut(i) THEN cleanup_client(s, i)
                   ELSE s
         IN process_clients(s1, i + 1)

LoopKeepalive(wres, closing) ==
    /\ UNCHANGED <<routerVars, inboundVars, regVars, h_round, localVars>>
    /\ started
    /\ num_clients > 0
    /\ Elapsed(last_keepalive) >= TCP_IF_KEEPALIVE_INTERVAL
    /\ last_keepalive' = now
    /\ \E s \in {process_clients(keepalive_loop(Iface, wres, closing), 0)} :
          /\ SetIface(s)
          /\ h_loop' = [ka_failed |-> {i \in Slots : /\ clients[i].active
                                                     /\ clients[i].connected
                                                     /\ wres[i] = "zero"},
                        timed_out |-> {i \in Slots : /\ clients[i].active
                                                     /\ clients[i].connected
                                                     /\ read_timeout > 0
                                                     /\ Elapsed(clients[i].last_activity)
                                                           > read_timeout},
                        handed |-> Len(s.delivered),
                        rejected |-> FALSE,
                        attempt |-> NoAttempt,
                        skipped |-> FALSE,
                        ka_sent |-> ka_targets(clients),
                        found |-> Framing(NoClient),
                        pass |-> FALSE]
          /\ h_served' = [i \in Slots |-> IF i \in ka_targets(clients)
                                            THEN now ELSE h_served[i]]
    /\ UNCHANGED <<mode, target_host, started, last_reconnect,
                   reconnect_interval, read_timeout, resolved_ip, consecutive_failures,
                   now, h_ref, h_delivered, h_connect, n_accept, n_read, n_start>>

\* the clock of the loop specification moves by a keepalive interval
LoopTick ==
    /\ UNCHANGED <<routerVars, inboundVars, regVars, h_round, localVars>>
    /\ UNCHANGED h_served
    /\ h_loop' = NoLoop
    /\ now + TCP_IF_KEEPALIVE_INTERVAL <= MaxLoopNow
    /\ now' = now + TCP_IF_KEEPALIVE_INTERVAL
    /\ UNCHANGED <<mode, target_host, started, clients, num_clients, last_rx_client_idx,
                   last_reconnect, last_keepalive, reconnect_interval, read_timeout,
                   resolved_ip, consecutive_failures, histVars>>
    /\ h_bcast' = NoBcast

\* the keepalive block of the next pass of loop() would write
KeepaliveDue ==
    /\ started
    /\ num_clients > 0
    /\ Elapsed(last_keepalive) >= TCP_IF_KEEPALIVE_INTERVAL

\* the clock moves by a third of the keepalive interval while loop() keeps
\* running: a pass in which the keepalive is due comes before the clock moves
RunningTick ==
    /\ UNCHANGED <<routerVars, inboundVars, regVars, h_round, localVars>>
    /\ UNCHANGED h_served
    /\ h_loop' = NoLoop
    /\ ~KeepaliveDue
    /\ now + (TCP_IF_KEEPALIVE_INTERVAL \div 3) <= MaxKaNow
    /\ now' = now + (TCP_IF_KEEPALIVE_INTERVAL \div 3)
    /\ UNCHANGED <<mode, target_host, started, clients, num_clients, last_rx_client_idx,
                   last_reconnect, last_keepalive, reconnect_interval, read_timeout,
                   resolved_ip, consecutive_failures, histVars>>
    /\ h_bcast' = NoBcast

\* ------------------------------------------------------------------------
\* The framing of send_outgoing read back by _hdlc_deframe: a peer that
\* frames as this interface does sends one packet to slot 0
\* ------------------------------------------------------------------------
\* the read loop over the runs of a framed packet
RECURSIVE read_wire(_, _, _, _, _)
read_wire(s, idx, buf, t, react) ==
    IF buf = <<>> THEN s
    ELSE LET s1 == read_run(s, idx, Head(buf).pat, Head(buf).n, t, react)
         IN IF s1.num_clients >= 0
            THEN read_wire(s1, idx, Tail(buf), t, react)
            ELSE s1

\* a flag among the bytes between the first and the last of a framed packet
InnerFlag(buf) ==
    \E k \in 1 .. Len(buf) :
        /\ \E j \in 1 .. Len(buf[k].pat) : buf[k].pat[j] = HDLC_FLAG
        /\ IF k = 1 \/ k = Len(buf) THEN buf[k].n > 1 \/ Len(buf) = 1
           ELSE TRUE

\* payloads of 1 .. HW_MTU bytes: single bytes, whole buffers of flags, of
\* escapes and of plain bytes, and mixtures with the bytes stuffing makes
RoundPayloads ==
    {<<[b |-> HDLC_FLAG, n |-> 1]>>,
     <<[b |-> HDLC_ESC, n |-> 1]>>,
     <<[b |-> 65, n |-> 1]>>,
     <<[b |-> HDLC_FLAG, n |-> TCP_IF_HW_MTU]>>,
     <<[b |-> HDLC_ESC, n |-> TCP_IF_HW_MTU]>>,
     <<[b |-> 65, n |-> TCP_IF_HW_MTU]>>,
     <<[b |-> HDLC_FLAG, n |-> TCP_IF_HW_MTU \div 2],
       [b |-> HDLC_ESC, n |-> TCP_IF_HW_MTU \div 2]>>,
     <<[b |-> 94, n |-> 1], [b |-> HDLC_ESC, n |-> 1], [b |-> HDLC_FLAG, n |-> 1],
       [b |-> 93, n |-> 1], [b |-> 65, n |-> 1]>>}

RoundTrip(data) ==
    /\ UNCHANGED <<routerVars, inboundVars, regVars, h_served, localVars>>
    /\ h_loop' = NoLoop
    /\ started
    /\ clients[0].active
    /\ clients[0].connected
    /\ h_round = NoRound
    /\ \E frame \in {hdlc_frame(data)} :
       \E s \in {read_wire(Iface, 0, frame.buf, now,
                           [fwd |-> FALSE, wres |-> AllFull])} :
          /\ SetIface(s)
          /\ h_round' = [state |-> "done",
                         payload |-> data,
                         before |-> [in_frame |-> clients[0].in_frame,
                                     escape |-> clients[0].escape,
                                     truncated |-> clients[0].truncated,
                                     rxlen |-> clients[0].rxlen],
                         flen |-> frame.flen,
                         inner_flag |-> InnerFlag(frame.buf),
                         delivered |-> DeliveredOf(s.delivered, 0)]
    /\ UNCHANGED <<mode, target_host, started, last_reconnect, last_keepalive,
                   reconnect_interval, read_timeout, resolved_ip, consecutive_failures,
                   now, h_ref, h_delivered, h_connect, n_accept, n_read, n_start>>

\* the reference reading of a framed packet
RECURSIVE ref_wire(_, _)
ref_wire(t, buf) ==
    IF buf = <<>> THEN t
    ELSE LET t1 == ref_run(t, Head(buf).pat, Head(buf).n)
         IN IF t1.empties >= 0 THEN ref_wire(t1, Tail(buf)) ELSE t1

\* send_outgoing with a payload of any length, once in a run: what the
\* stuffing loop makes of it, and the payloads a reader of the frame finds
\* between its flags
StuffPayload(data) ==
    /\ UNCHANGED <<routerVars, inboundVars, regVars, h_served, localVars>>
    /\ h_loop' = NoLoop
    /\ started
    /\ num_clients > 0
    /\ h_round = NoRound
    /\ SetIface(send_outgoing(Iface, data, AllFull))
    /\ \E frame \in {hdlc_frame(data)} :
          h_round' = [state |-> "framed",
                      payload |-> data,
                      flen |-> frame.flen,
                      taken |-> frame.taken,
                      carried |-> ref_wire(RefIdle, frame.buf).out]
    /\ UNCHANGED <<mode, target_host, started, last_reconnect, last_keepalive,
                   reconnect_interval, read_timeout, resolved_ip, consecutive_failures,
                   now, h_ref, h_delivered, h_connect, n_accept, n_read, n_start>>

\* payloads of one run and of two runs, of bytes that are stuffed and of one
\* that is not, up to the MTU and past it
StuffBytes == {HDLC_FLAG, HDLC_ESC, 65}
StuffLens ==
    {1, TCP_IF_HW_MTU \div 2, TCP_IF_HW_MTU - 1, TCP_IF_HW_MTU, 2 * TCP_IF_HW_MTU}
        \cup {TCP_IF_HW_MTU + k : k \in 1 .. MaxOverMtu}
StuffPayloads ==
    {<<[b |-> b1, n |-> n1]>> : b1 \in StuffBytes, n1 \in StuffLens}
        \cup {<<[b |-> p[1], n |-> n1], [b |-> p[2], n |-> n2]>> :
                 p \in {q \in StuffBytes \X StuffBytes : q[1] # q[2]},
                 n1 \in {1, TCP_IF_HW_MTU \div 2, TCP_IF_HW_MTU - 1, TCP_IF_HW_MTU},
                 n2 \in {1, TCP_IF_HW_MTU \div 2, TCP_IF_HW_MTU, TCP_IF_HW_MTU + 1}}

\* ------------------------------------------------------------------------
\* TcpInterface::loop, client reconnection
\* ------------------------------------------------------------------------
\* variant: the retries end after two failures in a row
reconnect_due_few_failures ==
    /\ Elapsed(last_reconnect) >= reconnect_interval
    /\ consecutive_failures < 2

\* variant: an attempt is due in every pass of the loop
reconnect_due_at_once == TRUE

\* now - _last_reconnect >= _reconnect_interval
reconnect_due == Elapsed(last_reconnect) >= reconnect_interval

LoopReconnect ==
    /\ UNCHANGED <<routerVars, inboundVars, regVars, h_round, localVars>>
    /\ started
    /\ mode = TCP_IF_MODE_CLIENT
    /\ num_clients = 0
    /\ h_connect.calls < MaxConnects
    /\ reconnect_due
    /\ \E wifi \in BOOLEAN :
          IF wifi
          THEN \E cached_ok, dns_ok, fresh_ok \in BOOLEAN : \E addr \in Addresses :
                  connect_client(cached_ok, dns_ok, addr, fresh_ok)
          ELSE /\ last_reconnect' = now
               /\ h_loop' = [NoLoop EXCEPT !.skipped = TRUE]
               /\ UNCHANGED h_served
               /\ UNCHANGED <<clients, num_clients, resolved_ip, consecutive_failures,
                              reconnect_interval, h_ref, h_delivered, h_connect>>
    /\ h_bcast' = NoBcast
    /\ UNCHANGED <<mode, target_host, started, last_rx_client_idx, last_keepalive,
                   read_timeout, now, n_accept, n_read, n_start>>

\* millis() advances
Tick ==
    /\ UNCHANGED <<routerVars, inboundVars, regVars, h_round, localVars>>
    /\ UNCHANGED h_served
    /\ h_loop' = NoLoop
    /\ \E d \in TickSteps : now + d <= MaxNow /\ now' = now + d
    /\ UNCHANGED <<mode, target_host, started, clients, num_clients, last_rx_client_idx,
                   last_reconnect, last_keepalive, reconnect_interval, read_timeout,
                   resolved_ip, consecutive_failures, histVars>>
    /\ h_bcast' = NoBcast

\* ------------------------------------------------------------------------
\* Specifications
\* ------------------------------------------------------------------------
\* runs a peer sends in the server-role specification: one whole frame
WholeFrames == {[pat |-> <<HDLC_FLAG, 65, HDLC_FLAG>>, n |-> 1]}
\* runs a peer sends in the framing specification
FrameRuns == {[pat |-> <<HDLC_FLAG>>, n |-> 1],
              [pat |-> <<HDLC_ESC>>, n |-> 1],
              [pat |-> <<65>>, n |-> 1],
              [pat |-> <<65>>, n |-> TCP_IF_HW_MTU]}
Payloads == {<<[b |-> 66, n |-> 1]>>}

Init ==
    /\ InitTcp(TCP_IF_MODE_SERVER, {FALSE})
    /\ RouterWith(EmptyMap)

Next ==
    \/ Start
    \/ Stop
    \/ AcceptClient(MaxAccepts)
    \/ \E i \in Slots : PeerClose(i)
    \/ \E i \in Slots : LoopDisconnected(i)
    \/ \E i \in Slots, run \in WholeFrames, react \in Reactions :
          LoopRead(i, run, react, FALSE)
    \/ \E data \in Payloads, wres \in WriteOutcomes : SendOutgoing(data, wres)

Spec == Init /\ [][Next]_vars

NextFrame ==
    \/ Start
    \/ AcceptClient(1)
    \/ \E i \in Slots, run \in FrameRuns :
          LoopRead(i, run, [fwd |-> FALSE, wres |-> AllFull], TRUE)

SpecFrame == Init /\ [][NextFrame]_vars

\* the framing specification, with one packet framed and read back
NextRound ==
    \/ Start
    \/ AcceptClient(1)
    \/ \E i \in Slots, run \in FrameRuns :
          /\ h_round = NoRound
          /\ n_read < MaxRoundRuns
          /\ LoopRead(i, run, [fwd |-> FALSE, wres |-> AllFull], TRUE)
    \/ \E data \in RoundPayloads : RoundTrip(data)

SpecRound == Init /\ [][NextRound]_vars

\* runs a peer sends in the frame-order specification: several frames of
\* different content in one read, and frames that end in a later read
OrderRuns == {[pat |-> <<HDLC_FLAG, 65, HDLC_FLAG, 66, HDLC_FLAG>>, n |-> 1],
              [pat |-> <<HDLC_FLAG, 65, HDLC_FLAG, 66, HDLC_FLAG>>, n |-> 2],
              [pat |-> <<67>>, n |-> 1],
              [pat |-> <<68, HDLC_FLAG, 69>>, n |-> 1],
              [pat |-> <<70, HDLC_FLAG, 71, HDLC_ESC, 94, HDLC_FLAG, 72>>, n |-> 1]}

NextOrder ==
    \/ Start
    \/ AcceptClient(1)
    \/ \E i \in Slots, run \in OrderRuns :
          /\ n_read < MaxOrderReads
          /\ LoopRead(i, run, [fwd |-> FALSE, wres |-> AllFull], TRUE)

SpecOrder == Init /\ [][NextOrder]_vars

\* bytes two peers send in turns, one byte a read
MuxRuns == {[pat |-> <<HDLC_FLAG>>, n |-> 1],
            [pat |-> <<HDLC_ESC>>, n |-> 1],
            [pat |-> <<65>>, n |-> 1]}

\* two connections whose byte streams are read in any interleaving, the
\* router forwarding the frames or not
NextMux ==
    \/ Start
    \/ AcceptClient(2)
    \/ \E i \in Slots, run \in MuxRuns, react \in Reactions :
          /\ n_read < MaxMuxReads
          /\ LoopRead(i, run, react, TRUE)

SpecMux == Init /\ [][NextMux]_vars

\* ------------------------------------------------------------------------
\* TcpInterface::loop with millis() in its 32 bits.  A uint32_t is kept as
\* its two 16-bit halves, so that the clock can pass 2^32 and come back to 0.
\* ------------------------------------------------------------------------
Ms32(n) == [hi |-> (n \div U16) % U16, lo |-> n % U16]

\* a + d and a - b in uint32_t
add32(a, d) ==
    LET lo == a.lo + (d % U16)
    IN [hi |-> (a.hi + (d \div U16) + (lo \div U16)) % U16, lo |-> lo % U16]

sub32(a, b) ==
    LET lo == a.lo - b.lo
        hi == a.hi - b.hi - (IF lo < 0 THEN 1 ELSE 0)
    IN [hi |-> (hi + U16) % U16, lo |-> (lo + U16) % U16]

\* a > n and a >= n, for n below 2^31
gt32(a, n) == a.hi > n \div U16 \/ (a.hi = n \div U16 /\ a.lo > n % U16)
ge32(a, n) == a.hi > n \div U16 \/ (a.hi = n \div U16 /\ a.lo >= n % U16)

\* _read_timeout > 0 && last_activity > 0 &&
\* (millis() - last_activity) > _read_timeout
ReadTimedOut32(c, t) ==
    /\ read_timeout > 0
    /\ c.last_activity # Ms32(0)
    /\ gt32(sub32(t, c.last_activity), read_timeout)

\* the per-client part of one pass for slots i and up; the peers of the
\* slots in readers have sent a keepalive, of which one flag is read
RECURSIVE process_clients32(_, _, _)
process_clients32(s, i, readers) ==
    IF i = TCP_IF_MAX_CLIENTS THEN s
    ELSE LET c == s.clients[i]
             s1 == IF ~c.active THEN s
                   ELSE IF ~c.connected THEN cleanup_client(s, i)
                   ELSE IF ReadTimedOut32(c, now) THEN cleanup_client(s, i)
                   ELSE IF i \in readers
                        THEN read_bytes(s, i, <<HDLC_FLAG>>, now,
                                        [fwd |-> FALSE, wres |-> AllFull])
                        ELSE s
         IN process_clients32(s1, i + 1, readers)

\* one pass of loop() in server role with no connection waiting
WrapLoop(readers) ==
    /\ UNCHANGED <<routerVars, inboundVars, regVars, h_round, localVars>>
    /\ UNCHANGED h_served
    /\ started
    /\ mode = TCP_IF_MODE_SERVER
    /\ readers \subseteq {i \in Slots : clients[i].active /\ clients[i].connected}
    /\ last_keepalive' =
          IF num_clients > 0
             /\ ge32(sub32(now, last_keepalive), TCP_IF_KEEPALIVE_INTERVAL)
          THEN now ELSE last_keepalive
    /\ \E s \in {process_clients32(Iface, 0, readers)} :
          /\ SetIface(s)
          /\ h_loop' = [NoLoop EXCEPT
                           !.pass = TRUE,
                           !.timed_out = {i \in Slots : /\ clients[i].active
                                                         /\ ~s.clients[i].active}]
    /\ UNCHANGED <<mode, target_host, started, last_reconnect,
                   reconnect_interval, read_timeout, resolved_ip, consecutive_failures,
                   now, h_ref, h_delivered, h_connect, n_accept, n_read, n_start>>

\* millis() moves on by half the read timeout, through 2^32
WrapTick ==
    /\ UNCHANGED <<routerVars, inboundVars, regVars, h_round, localVars>>
    /\ UNCHANGED h_served
    /\ h_loop' = NoLoop
    /\ ~gt32(sub32(add32(now, TCP_IF_READ_TIMEOUT \div 2), WrapBase), MaxWrapNow)
    /\ now' = add32(now, TCP_IF_READ_TIMEOUT \div 2)
    /\ UNCHANGED <<mode, target_host, started, clients, num_clients, last_rx_client_idx,
                   last_reconnect, last_keepalive, reconnect_interval, read_timeout,
                   resolved_ip, consecutive_failures, histVars>>
    /\ h_bcast' = NoBcast

\* the clock of the slot-count specification moves by a millisecond more
\* than the read timeout
CountTick ==
    /\ UNCHANGED <<routerVars, inboundVars, regVars, h_round, localVars>>
    /\ UNCHANGED h_served
    /\ h_loop' = NoLoop
    /\ now + TCP_IF_READ_TIMEOUT + 1 <= MaxCountNow
    /\ now' = now + TCP_IF_READ_TIMEOUT + 1
    /\ UNCHANGED <<mode, target_host, started, clients, num_clients, last_rx_client_idx,
                   last_reconnect, last_keepalive, reconnect_interval, read_timeout,
                   resolved_ip, consecutive_failures, histVars>>
    /\ h_bcast' = NoBcast

\* an interface of either role, made when millis() is past 0
InitCount ==
    /\ \E m \in {TCP_IF_MODE_SERVER, TCP_IF_MODE_CLIENT} :
          InitTcpAt(m, {TRUE}, TCP_IF_RECONNECT_MIN)
    /\ RouterWith(EmptyMap)

\* start and stop, accepts and connects, closed sockets, read timeouts and
\* failed writes, in any order
NextCount ==
    \/ StartUpTo(MaxCountStarts)
    \/ Stop
    \/ AcceptClient(MaxCountAccepts)
    \/ h_connect.calls < MaxCountConnects /\ LoopReconnect
    \/ \E i \in {0, 1} : PeerClose(i)
    \/ \E i \in {0, 1} : LoopDisconnected(i)
    \/ \E i \in {0, 1} : LoopReadTimeout(i)
    \/ \E i \in {0, 1}, run \in WholeFrames, react \in Reactions :
          LoopRead(i, run, react, FALSE)
    \/ \E data \in Payloads, wres \in WriteOutcomes : SendOutgoing(data, wres)
    \/ CountTick

SpecCount == InitCount /\ [][NextCount]_vars

\* a server that has run without a connection until millis() is one read
\* timeout, a millisecond more or a millisecond less, before 2^32
WrapStarts == {sub32(Ms32(0), Ms32(TCP_IF_READ_TIMEOUT + k)) : k \in {0, 1}}
                 \cup {sub32(Ms32(0), Ms32(TCP_IF_READ_TIMEOUT - 1))}

InitWrap ==
    /\ \E t0 \in WrapStarts :
          InitTcpWith(TCP_IF_MODE_SERVER, {FALSE}, t0, {0}, Ms32(0))
    /\ RouterWith(EmptyMap)

NextWrap ==
    \/ Start
    \/ AcceptClient(MaxWrapAccepts)
    \/ \E readers \in SUBSET {0, 1} : WrapLoop(readers)
    \/ WrapTick

SpecWrap == InitWrap /\ [][NextWrap]_vars

\* Transport answers the packet it is handed with a packet of its own
ReplyReactions ==
    {[fwd |-> f, wres |-> w, reply |-> p] :
        f \in BOOLEAN, w \in WriteOutcomes, p \in Payloads}

\* what the first slot reads: the start of a frame, an escape, a byte and a
\* buffer's worth of bytes, and a byte followed by a flag
SlotRuns == {[pat |-> <<HDLC_FLAG>>, n |-> 1],
             [pat |-> <<HDLC_ESC>>, n |-> 1],
             [pat |-> <<65>>, n |-> 1],
             [pat |-> <<65>>, n |-> TCP_IF_HW_MTU],
             [pat |-> <<66, HDLC_FLAG>>, n |-> 1]}

\* an interface of either role whose first slot is filled by an accept or
\* by the connect of start(), read, emptied by a closed socket or by stop(),
\* and filled again
NextSlot ==
    \/ StartUpTo(MaxSlotStarts)
    \/ Stop
    \/ AcceptClient(MaxSlotAccepts)
    \/ PeerClose(0)
    \/ LoopDisconnected(0)
    \/ \E run \in SlotRuns :
          n_read < MaxSlotReads /\ LoopRead(0, run, [fwd |-> FALSE, wres |-> AllFull], TRUE)

SpecSlot == InitCount /\ [][NextSlot]_vars

\* payloads of every length framed by send_outgoing
NextStuff ==
    \/ Start
    \/ AcceptClient(1)
    \/ \E data \in StuffPayloads : StuffPayload(data)

SpecStuff == Init /\ [][NextStuff]_vars

\* frames read from two connections, forwarded, answered or neither
NextReply ==
    \/ Start
    \/ AcceptClient(2)
    \/ \E i \in Slots, run \in WholeFrames, react \in Reactions \cup ReplyReactions :
          n_read < MaxReplyReads /\ LoopRead(i, run, react, TRUE)

SpecReply == Init /\ [][NextReply]_vars

\* frames read from two connections, and packets that Transport sends
\* between the reads
NextSend ==
    \/ Start
    \/ AcceptClient(2)
    \/ \E i \in Slots, run \in WholeFrames, react \in Reactions :
          n_read < MaxSendReads /\ LoopRead(i, run, react, TRUE)
    \/ \E data \in Payloads, wres \in WriteOutcomes : SendOutgoing(data, wres)

SpecSend == Init /\ [][NextSend]_vars

\* the server with more connections arriving than it has slots
NextAccept ==
    \/ Start
    \/ AcceptClient(MaxArrivals)
    \/ \E i \in {0, TCP_IF_MAX_CLIENTS - 1} : PeerClose(i)
    \/ \E i \in {0, TCP_IF_MAX_CLIENTS - 1} : LoopDisconnected(i)
    \/ \E run \in FrameRuns :
          /\ n_read < MaxAcceptReads
          /\ LoopRead(0, run, [fwd |-> FALSE, wres |-> AllFull], TRUE)

SpecAccept == Init /\ [][NextAccept]_vars

\* the server with two connections, started once WiFi is up, its clock
\* running
InitLoop ==
    /\ InitTcpAt(TCP_IF_MODE_SERVER, {FALSE}, TCP_IF_RECONNECT_MIN)
    /\ RouterWith(EmptyMap)

NextLoop ==
    \/ Start
    \/ AcceptClient(2)
    \/ LoopTick
    \/ \E i \in Slots : PeerClose(i)
    \/ \E i \in Slots : LoopDisconnected(i)
    \/ \E i \in Slots : LoopReadTimeout(i)
    \/ \E wres \in WriteOutcomes, closing \in {{}, Slots} :
          LoopKeepalive(wres, closing)
    \/ \E data \in Payloads, wres \in WriteOutcomes : SendOutgoing(data, wres)

SpecLoop == InitLoop /\ [][NextLoop]_vars

\* the server with loop() running all the time, connections coming and
\* going and packets being sent between the keepalives
NextKeepalive ==
    \/ Start
    \/ AcceptClient(MaxKaAccepts)
    \/ RunningTick
    \/ PeerClose(0)
    \/ LoopDisconnected(0)
    \/ LoopKeepalive(AllFull, {})
    \/ \E data \in Payloads : SendOutgoing(data, AllFull)

SpecKeepalive == InitLoop /\ [][NextKeepalive]_vars

InitClient ==
    /\ InitTcp(TCP_IF_MODE_CLIENT, BOOLEAN)
    /\ RouterWith(EmptyMap)

NextClient ==
    \/ Start
    \/ Stop
    \/ LoopReconnect
    \/ PeerClose(0)
    \/ LoopDisconnected(0)
    \/ Tick

SpecClient == InitClient /\ [][NextClient]_vars

\* the client with a target host, loop() running for ever: the connection
\* is lost, WiFi is down and attempts fail for some time, and from then on
\* WiFi is up and attempts succeed.  The failure counter starts at 0 or,
\* after a stop() that followed 65535 failures, at the last value of a
\* uint16_t, the clock being counted from that moment.
InitRetry ==
    /\ InitTcpFrom(TCP_IF_MODE_CLIENT, {TRUE}, 0, {0, U16 - 1})
    /\ RouterWith(EmptyMap)

\* a pass of loop() in which the reconnect is due
\* the attempts succeed and WiFi is up from some point on
SucceedsNow == now > MaxLossNow \/ h_connect.calls >= MaxRetryFailures

RetryAttempt ==
    /\ LoopReconnect
    /\ SucceedsNow => clients'[0].active

RetryStart ==
    /\ Start
    /\ SucceedsNow => clients'[0].active

RetryLoss ==
    /\ now <= MaxLossNow
    /\ h_connect.calls <= MaxRetryFailures
    /\ PeerClose(0)

\* millis() advances by a third of the longest reconnect interval
RetryTick ==
    /\ UNCHANGED <<routerVars, inboundVars, regVars, h_round, localVars>>
    /\ UNCHANGED h_served
    /\ h_loop' = NoLoop
    /\ now + (TCP_IF_RECONNECT_MAX \div 3) <= MaxRetryNow
    /\ now' = now + (TCP_IF_RECONNECT_MAX \div 3)
    /\ UNCHANGED <<mode, target_host, started, clients, num_clients, last_rx_client_idx,
                   last_reconnect, last_keepalive, reconnect_interval, read_timeout,
                   resolved_ip, consecutive_failures, histVars>>
    /\ h_bcast' = NoBcast

NextRetry ==
    \/ RetryStart
    \/ RetryAttempt
    \/ RetryLoss
    \/ LoopDisconnected(0)
    \/ RetryTick

\* loop() is called again and again and the clock moves on
SpecRetry ==
    /\ InitRetry
    /\ [][NextRetry]_vars
    /\ WF_vars(RetryAttempt)
    /\ WF_vars(LoopDisconnected(0))
    /\ WF_vars(RetryTick)

\* the client with a target host, with every way its connection is torn down
InitCache ==
    /\ InitTcp(TCP_IF_MODE_CLIENT, {TRUE})
    /\ RouterWith(EmptyMap)

NextCache ==
    \/ Start
    \/ h_connect.calls < MaxCacheConnects /\ LoopReconnect
    \/ PeerClose(0)
    \/ LoopDisconnected(0)
    \/ LoopReadTimeout(0)
    \/ \E data \in Payloads, wres \in WriteOutcomes : SendOutgoing(data, wres)
    \/ now < MaxCacheNow /\ Tick

SpecCache == InitCache /\ [][NextCache]_vars


\* ------------------------------------------------------------------------
\* Transport: the path table (_destination_table)
\* ------------------------------------------------------------------------
\* capacity of the path table; the firmware is configured with 48
PathTableCap == 3
\* ticks of the clock while paths come in
MaxPathTicks == 1
\* ticks of the clock while links are up
MaxTicks == 2

\* one destination hash more than the table holds
Hashes == 1 .. (PathTableCap + 1)

MODE_ACCESS_POINT == "access_point"
MODE_BOUNDARY == "boundary"

\* the interfaces of a boundary node: the LoRa radio, the local TCP server
\* and the backbone
InterfaceIds == {"LoRa", "Local", "Backbone"}
InterfaceMode(iface) == IF iface = "Backbone" THEN MODE_BOUNDARY ELSE MODE_ACCESS_POINT

\* where an accepted announce or a path response says the destination is:
\* no two of them agree in any field
PathSources == {[iface |-> "LoRa", via |-> 11, hops |-> 1],
                [iface |-> "Backbone", via |-> 13, hops |-> 3]}

\* std::map::erase(key)
map_erase(t, k) == [j \in (DOMAIN t) \ {k} |-> t[j]]

\* std::map::insert({key, value}): leaves an existing key alone
map_insert(t, k, v) ==
    IF k \in DOMAIN t THEN t
    ELSE [j \in (DOMAIN t) \cup {k} |-> IF j = k THEN v ELSE t[j]]

Oldest(t, pool) == {k \in pool : \A j \in pool : t[k].timestamp <= t[j].timestamp}

BoundaryOrigin(t) == {k \in DOMAIN t : t[k].is_boundary_origin}

\* evict_one, ignoring where an entry came from
evict_one_oldest(t) == Oldest(t, DOMAIN t)

\* evict_one: the entries it may take; equal timestamps leave a choice
evict_one(t) ==
    IF BoundaryOrigin(t) # {} THEN Oldest(t, BoundaryOrigin(t))
    ELSE Oldest(t, DOMAIN t)

\* make room for one more entry, taking victim when the table is full
make_room_never(t, victim) == t

make_room(t, victim) ==
    IF Cardinality(DOMAIN t) >= PathTableCap THEN map_erase(t, victim) ELSE t

\* the update as it was before the erase was added
upsert_insert_only(t, hash, entry, victim) ==
    map_insert(make_room(t, victim), hash, entry)

\* upsert: erase the hash, make room, insert
upsert(t, hash, entry, victim) ==
    map_insert(make_room(map_erase(t, hash), victim), hash, entry)

\* the victims upsert may be handed for this hash (0: nothing to evict)
Victims(t, hash) ==
    IF Cardinality(DOMAIN map_erase(t, hash)) >= PathTableCap
    THEN evict_one(map_erase(t, hash))
    ELSE {0}

DestinationEntry(src) ==
    [timestamp |-> os_time,
     received_from |-> src.via,
     hops |-> src.hops,
     receiving_interface |-> src.iface,
     is_boundary_origin |-> InterfaceMode(src.iface) = MODE_BOUNDARY]

\* an announce is accepted, or a path response comes back, for hash
UpsertPath(hash, src) ==
    /\ UNCHANGED <<regVars, h_round, h_served, localVars, tcpVars, histVars, h_bcast, h_loop, inboundVars>>
    /\ UNCHANGED <<os_time, link_table, h_link, lr, n_tick>>
    /\ \E victim \in Victims(destination_table, hash) :
         LET old == destination_table IN
         /\ destination_table' = upsert(old, hash, DestinationEntry(src), victim)
         /\ h_path' = [kind |-> "upsert",
                       hash |-> hash,
                       entry |-> DestinationEntry(src),
                       was_full |-> Cardinality(DOMAIN old) >= PathTableCap,
                       replaced |-> hash \in DOMAIN old,
                       changed_all |-> /\ hash \in DOMAIN old
                                       /\ \A f \in DOMAIN old[hash] :
                                            old[hash][f] # DestinationEntry(src)[f],
                       evicted |-> victim,
                       older_local |-> /\ victim \in DOMAIN old
                                       /\ \E k \in DOMAIN old :
                                            /\ ~old[k].is_boundary_origin
                                            /\ old[k].timestamp < old[victim].timestamp]

\* d seconds pass
Elapse(d, limit) ==
    /\ UNCHANGED <<regVars, h_round, h_served, localVars, tcpVars, histVars, h_bcast, h_loop, inboundVars>>
    /\ UNCHANGED <<destination_table, link_table, lr>>
    /\ n_tick < limit
    /\ n_tick' = n_tick + 1
    /\ os_time' = os_time + d
    /\ h_path' = NoPathOp
    /\ h_link' = NoLinkOp

InitPath ==
    /\ InitTcp(TCP_IF_MODE_CLIENT, {TRUE})
    /\ RouterWith(EmptyMap)

NextPath ==
    \/ \E hash \in Hashes, src \in PathSources : UpsertPath(hash, src)
    \/ Elapse(1, MaxPathTicks)

SpecPath == InitPath /\ [][NextPath]_vars

\* ------------------------------------------------------------------------
\* Transport: the link table (_link_table)
\* ------------------------------------------------------------------------
\* seconds a validated link may stay idle
LINK_TIMEOUT == 900
\* seconds per hop a link request waits for its proof
DEFAULT_PER_HOP_TIMEOUT == 6

\* the path the router knows when the link requests arrive
KnownPaths ==
    [hash \in {1} |->
        [timestamp |-> 0, received_from |-> 13, hops |-> 1,
         receiving_interface |-> "Backbone", is_boundary_origin |-> TRUE]]

\* the link requests seen in transit: a link id is the hash of its request;
\* the last is for a destination the router has no path to
LinkRequests == {[link_id |-> 21, destination_hash |-> 1, iface |-> "LoRa", hops |-> 1],
                 [link_id |-> 22, destination_hash |-> 1, iface |-> "Local", hops |-> 2],
                 [link_id |-> 23, destination_hash |-> 2, iface |-> "LoRa", hops |-> 1]}
LinkIds == {21, 22}
PacketHops == {1, 2}
\* the clock moves by these: past a proof timeout, and up to LINK_TIMEOUT
LinkSteps == {DEFAULT_PER_HOP_TIMEOUT + 1, LINK_TIMEOUT}

LinkEntry(req, path) ==
    [timestamp |-> os_time,
     next_hop |-> path.received_from,
     outbound_interface |-> path.receiving_interface,
     remaining_hops |-> path.hops,
     receiving_interface |-> req.iface,
     hops |-> req.hops,
     destination_hash |-> req.destination_hash,
     validated |-> FALSE,
     proof_timeout |-> os_time + DEFAULT_PER_HOP_TIMEOUT * path.hops]

\* when the entry was made
CreatedAt(e) == e.proof_timeout - DEFAULT_PER_HOP_TIMEOUT * e.remaining_hops

\* a link request arrives for a destination in the path table: it is sent
\* on, the path is marked used, and the link is entered, unvalidated
LinkRequest(req) ==
    /\ UNCHANGED <<regVars, h_round, h_served, localVars, tcpVars, histVars, h_bcast, h_loop, inboundVars>>
    /\ UNCHANGED <<os_time, lr, n_tick>>
    /\ h_path' = NoPathOp
    /\ IF req.destination_hash \in DOMAIN destination_table
       THEN /\ destination_table' =
                 [destination_table EXCEPT ![req.destination_hash].timestamp = os_time]
            /\ link_table' = map_insert(link_table, req.link_id,
                   LinkEntry(req, destination_table[req.destination_hash]))
            /\ h_link' = [kind |-> "request", link_id |-> req.link_id,
                          forwarded |-> TRUE]
       ELSE /\ UNCHANGED <<destination_table, link_table>>
            /\ h_link' = [kind |-> "request", link_id |-> req.link_id,
                          forwarded |-> FALSE]

\* the proof handler working on a copy of the entry
lrproof_copy(t, id) == t

\* LinkEntry& link_entry = ...; link_entry._validated = true;
lrproof(t, id) == [t EXCEPT ![id].validated = TRUE]

\* a link proof addressed to id arrives on iface; valid: its signature holds
LinkProof(id, iface, valid) ==
    /\ UNCHANGED <<regVars, h_round, h_served, localVars, tcpVars, histVars, h_bcast, h_loop, inboundVars>>
    /\ UNCHANGED <<os_time, destination_table, lr, n_tick>>
    /\ h_path' = NoPathOp
    /\ LET accepted == /\ id \in DOMAIN link_table
                       /\ iface = link_table[id].outbound_interface
                       /\ valid
       IN  /\ link_table' = IF accepted THEN lrproof(link_table, id) ELSE link_table
           /\ h_link' = [kind |-> "proof", link_id |-> id, accepted |-> accepted,
                         was_validated |-> id \in DOMAIN link_table
                                           /\ link_table[id].validated]

\* the transport handler working on a copy of the entry
link_refresh_copy(t, id, time) == t

\* LinkEntry& link_entry = ...; link_entry._timestamp = OS::time();
link_refresh(t, id, time) == [t EXCEPT ![id].timestamp = time]

\* the interface a frame of the link goes out on ("": none, it is dropped)
link_outbound(e, iface, hops) ==
    IF iface = e.outbound_interface /\ hops = e.remaining_hops
    THEN e.receiving_interface
    ELSE IF iface = e.receiving_interface /\ hops = e.hops
         THEN e.outbound_interface
         ELSE ""

\* a data or keepalive frame of link id arrives on iface
LinkData(id, iface, hops) ==
    /\ UNCHANGED <<regVars, h_round, h_served, localVars, tcpVars, histVars, h_bcast, h_loop, inboundVars>>
    /\ UNCHANGED <<os_time, destination_table, lr, n_tick>>
    /\ h_path' = NoPathOp
    /\ LET forwarded == /\ id \in DOMAIN link_table
                        /\ link_outbound(link_table[id], iface, hops) # ""
       IN  /\ link_table' = IF forwarded THEN link_refresh(link_table, id, os_time)
                            ELSE link_table
           /\ h_link' = [kind |-> "data", link_id |-> id, forwarded |-> forwarded,
                         before |-> IF id \in DOMAIN link_table
                                    THEN link_table[id].timestamp ELSE -1]

\* the culling test with no regard to validation
link_expired_unvalidated(e, time) == time > e.proof_timeout

\* the culling test of jobs()
link_expired(e, time) ==
    IF e.validated THEN time > e.timestamp + LINK_TIMEOUT
    ELSE time > e.proof_timeout

\* the janitor goes over the link table
CullLinks ==
    /\ UNCHANGED <<regVars, h_round, h_served, localVars, tcpVars, histVars, h_bcast, h_loop, inboundVars>>
    /\ UNCHANGED <<os_time, destination_table, lr, n_tick>>
    /\ h_path' = NoPathOp
    /\ LET gone == {id \in DOMAIN link_table : link_expired(link_table[id], os_time)}
           kept == (DOMAIN link_table) \ gone
       IN  /\ link_table' = [id \in kept |-> link_table[id]]
           /\ h_link' = [kind |-> "jobs",
                         early |-> \E id \in gone :
                                     /\ ~link_table[id].validated
                                     /\ os_time <= link_table[id].timestamp + LINK_TIMEOUT,
                         late |-> \E id \in kept :
                                     /\ link_table[id].validated
                                     /\ os_time > link_table[id].proof_timeout,
                         idle |-> \E id \in gone : link_table[id].validated]

InitLink ==
    /\ InitTcp(TCP_IF_MODE_CLIENT, {TRUE})
    /\ RouterWith(KnownPaths)

NextLink ==
    \/ \E req \in LinkRequests : LinkRequest(req)
    \/ \E id \in LinkIds, iface \in InterfaceIds, valid \in BOOLEAN :
         LinkProof(id, iface, valid)
    \/ \E id \in LinkIds, iface \in InterfaceIds, hops \in PacketHops :
         LinkData(id, iface, hops)
    \/ CullLinks
    \/ \E d \in LinkSteps : Elapse(d, MaxTicks)

SpecLink == InitLink /\ [][NextLink]_vars

\* ------------------------------------------------------------------------
\* Transport: the MTU of a link request in transit
\* ------------------------------------------------------------------------
LINK_MTU_SIZE == 3
\* bytes of a link request ahead of its signalling bytes
LrBodyLen == 2

LrBody == [i \in 1 .. LrBodyLen |-> 64 + i]
\* proposals around the hardware MTUs, and the largest a uint16_t holds
MtuProposals == {500, 508, 509, 1064, 1065, 8192, U16 - 1}
\* no MTU, the LoRa radio's, and TCP_IF_HW_MTU
HwMtus == {0, 508, TCP_IF_HW_MTU}
LinkModes == {1, 2}

\* Link::signalling_bytes: the mode in the top three bits, then the MTU
signalling_bytes(mtu, link_mode) ==
    <<((link_mode * 32) % 256) + ((mtu \div U16) % 32), (mtu \div 256) % 256, mtu % 256>>

SignallingOf(raw) == SubSeq(raw, Len(raw) - LINK_MTU_SIZE + 1, Len(raw))

\* Link::mtu_from_lr_packet, read into a uint16_t; 0 with no signalling bytes
mtu_from_lr_packet(packet) ==
    IF ~packet.signalled THEN 0
    ELSE LET b == SignallingOf(packet.raw)
         IN  ((b[1] % 32) * U16 + b[2] * 256 + b[3]) % U16

\* Link::mode_from_lr_packet
mode_from_lr_packet(packet) == SignallingOf(packet.raw)[1] \div 32

\* Bytes::left
left(raw, n) == SubSeq(raw, 1, n)

\* the clamp with only the next hop in view
clamp_next_hop_only(path_mtu, ph_mtu, nh_mtu) == Min(nh_mtu, path_mtu)

\* std::min(nh_mtu, (ph_mtu > 0) ? ph_mtu : nh_mtu)
clamp(path_mtu, ph_mtu, nh_mtu) == Min(nh_mtu, IF ph_mtu > 0 THEN ph_mtu ELSE nh_mtu)

\* the bytes sent on for a link request received on an interface with
\* HW_MTU ph_mtu and sent out on outbound_interface
clamp_link_mtu(packet, ph_mtu, outbound_interface) ==
    LET path_mtu == mtu_from_lr_packet(packet)
        nh_mtu == outbound_interface.HW_MTU
        new_raw == packet.raw
    IN  IF path_mtu > 0
        THEN IF nh_mtu = 0
             THEN left(new_raw, Len(new_raw) - LINK_MTU_SIZE)
             ELSE IF ~outbound_interface.AUTOCONFIGURE_MTU /\ ~outbound_interface.FIXED_MTU
                  THEN left(new_raw, Len(new_raw) - LINK_MTU_SIZE)
                  ELSE IF nh_mtu < path_mtu \/ (ph_mtu > 0 /\ ph_mtu < path_mtu)
                       THEN left(new_raw, Len(new_raw) - LINK_MTU_SIZE)
                            \o signalling_bytes(clamp(path_mtu, ph_mtu, nh_mtu),
                                                mode_from_lr_packet(packet))
                       ELSE new_raw
        ELSE new_raw

\* a link request proposing one of these MTUs is about to be sent on
InitMtuWith(proposals) ==
    /\ InitTcp(TCP_IF_MODE_CLIENT, {TRUE})
    /\ os_time = 0
    /\ destination_table = KnownPaths
    /\ link_table = EmptyMap
    /\ h_path = NoPathOp
    /\ h_link = NoLinkOp
    /\ n_tick = 0
    /\ packet_hashlist = <<>>
    /\ reverse_table = EmptyMap
    /\ announce_cache = {}
    /\ pending_local_path_requests = EmptyMap
    /\ h_requested = {}
    /\ h_in = NoInbound
    /\ h_loop = NoLoop
    /\ boundary_local_addresses = {}
    /\ InterfacesUp
    /\ \E p \in proposals, link_mode \in LinkModes, signalled \in BOOLEAN,
          ph \in HwMtus, nh \in HwMtus, fixed \in BOOLEAN, auto \in BOOLEAN :
         lr = [state |-> "received",
               p |-> p,
               link_mode |-> link_mode,
               packet |-> [signalled |-> signalled,
                           raw |-> IF signalled
                                   THEN LrBody \o signalling_bytes(p, link_mode)
                                   ELSE LrBody],
               ph_mtu |-> ph,
               outbound_interface |-> [HW_MTU |-> nh, FIXED_MTU |-> fixed,
                                       AUTOCONFIGURE_MTU |-> auto]]

\* a link request proposing MTU p is about to be sent on
InitMtu == InitMtuWith(MtuProposals)

\* the link request is sent on
ForwardLinkRequest ==
    /\ UNCHANGED <<regVars, h_round, h_served, localVars, tcpVars, histVars, h_bcast, h_loop, inboundVars>>
    /\ UNCHANGED <<os_time, destination_table, link_table, h_path, h_link, n_tick>>
    /\ lr.state = "received"
    /\ lr' = [state |-> "forwarded",
              p |-> lr.p,
              link_mode |-> lr.link_mode,
              packet |-> lr.packet,
              ph_mtu |-> lr.ph_mtu,
              outbound_interface |-> lr.outbound_interface,
              new_raw |-> clamp_link_mtu(lr.packet, lr.ph_mtu, lr.outbound_interface)]

NextMtu == ForwardLinkRequest

SpecMtu == InitMtu /\ [][NextMtu]_vars

\* every value the three signalling bytes can be asked to carry: the
\* proposals above, 0, and values past the 16 bits of path_mtu
WideProposals == MtuProposals \cup {0, U16, 4 * U16}

InitWide == InitMtuWith(WideProposals)

SpecWide == InitWide /\ [][NextMtu]_vars

\* ------------------------------------------------------------------------
\* Transport::inbound: the packet hashlist, link transport, the path
\* request for an unknown destination and the default route
\* ------------------------------------------------------------------------
\* capacity of the packet hashlist; the firmware is configured with 32
HashlistCap == 2
\* OS::time() when the packets come in
InboundTime == 60

HEADER_1 == "HEADER_1"
HEADER_2 == "HEADER_2"
BROADCAST == "BROADCAST"
TRANSPORT == "TRANSPORT"
DATA == "DATA"
PROOF_TYPE == "PROOF"
CONTEXT_NONE == "NONE"
RESOURCE == "RESOURCE"
LRPROOF == "LRPROOF"

\* the contexts packet_filter lets through without a look at the hashlist
ResourceContexts == {RESOURCE, "RESOURCE_REQ", "RESOURCE_PRF"}

\* the link in transit while packets come in: from LoRa on to the backbone
InboundLink == [link_id |-> 21, destination_hash |-> 1, iface |-> "LoRa", hops |-> 1]

Packet(hash, dest, type, context, header) ==
    [packet_hash |-> hash, destination_hash |-> dest, packet_type |-> type,
     context |-> context, header_type |-> header,
     transport_type |-> IF header = HEADER_2 THEN TRANSPORT ELSE BROADCAST,
     hops |-> 1]

\* the packets that come in: data and a resource part of the link, a link
\* packet in transport form, data for a destination without a path, the
\* proof of the link and the proof of the packet 34
InPackets ==
    {Packet(31, 21, DATA, CONTEXT_NONE, HEADER_1),
     Packet(32, 21, DATA, RESOURCE, HEADER_1),
     Packet(33, 21, DATA, CONTEXT_NONE, HEADER_2),
     Packet(34, 2, DATA, CONTEXT_NONE, HEADER_2),
     Packet(37, 21, PROOF_TYPE, LRPROOF, HEADER_1),
     Packet(38, 34, PROOF_TYPE, CONTEXT_NONE, HEADER_1)}

InList(list, h) == \E j \in 1 .. Len(list) : list[j] = h

\* variant: a filter that lets every packet through
packet_filter_open(hashlist, p) == TRUE

\* packet_filter: a hash already in the hashlist is a duplicate, except in
\* the resource contexts
packet_filter(hashlist, p) ==
    IF p.context \in ResourceContexts THEN TRUE
    ELSE ~InList(hashlist, p.packet_hash)

\* the size of the hash list (README, Table Size Limits)
HASHLIST_MAXSIZE == 32

\* variant: a full list drops its newest hash to make room
hashlist_put_newest_out(hashlist, h, cap) ==
    IF InList(hashlist, h) THEN hashlist
    ELSE IF Len(hashlist) >= cap THEN Append(SubSeq(hashlist, 1, Len(hashlist) - 1), h)
    ELSE Append(hashlist, h)

\* a hash list of cap hashes: a hash it holds is left where it is, a new
\* one is put last, the oldest making room
hashlist_put(hashlist, h, cap) ==
    IF InList(hashlist, h) THEN hashlist
    ELSE IF Len(hashlist) >= cap THEN Append(Tail(hashlist), h)
    ELSE Append(hashlist, h)

\* _packet_hashlist.insert(hash), the oldest hash making room
hashlist_insert(hashlist, h) == hashlist_put(hashlist, h, HashlistCap)

\* variant: the insertion as it was, at once for every accepted packet
defer_insert_never(links, p) == FALSE

\* variant: the insertion waits for packets of a link only
defer_insert_links_only(links, p) == p.destination_hash \in DOMAIN links

\* the insertion waits for packets of a link in the link table and for
\* link proofs
defer_insert(links, p) ==
    \/ p.destination_hash \in DOMAIN links
    \/ (p.packet_type = PROOF_TYPE /\ p.context = LRPROOF)

\* variant: the path request as it was, for every destination without a path
path_request_wanted_always(links, hash) == TRUE

\* if (_link_table.find(packet.destination_hash()) == _link_table.end())
\*     request_path(packet.destination_hash());
path_request_wanted(links, hash) == hash \notin DOMAIN links

\* HEADER_2 -> HEADER_1/BROADCAST
strip_transport(p) ==
    [p EXCEPT !.header_type = HEADER_1, !.transport_type = BROADCAST]

\* variant: a default route that keeps no way back
reverse_entry_none(t, hash, rcvd, outb, time) == t

\* the reverse-table entry of a forwarded packet
reverse_entry(t, hash, rcvd, outb, time) ==
    map_insert(map_erase(t, hash), hash,
               [receiving_interface |-> rcvd, outbound_interface |-> outb,
                timestamp |-> time])

\* what inbound() does with packet p received on iface
inbound(p, iface) ==
    LET links == link_table
        paths == destination_table
        dest == p.destination_hash
        accepted == packet_filter(packet_hashlist, p)
        deferred == defer_insert(links, p)
        is_lrproof == p.packet_type = PROOF_TYPE /\ p.context = LRPROOF
        for_us == p.header_type = HEADER_2
        has_path == dest \in DOMAIN paths
        narrow == InterfaceMode(iface) # MODE_BOUNDARY
        \* standard transport: we are the next hop and know the path
        path_out == IF accepted /\ for_us /\ has_path
                    THEN paths[dest].receiving_interface ELSE ""
        \* no path: a local packet in boundary mode (path A), or the
        \* transport fallback
        no_path == accepted /\ p.packet_type = DATA /\ ~has_path
                   /\ (narrow \/ for_us)
        requested == no_path /\ path_request_wanted(links, dest)
        \* the default route of a transport-addressed packet from a
        \* narrow interface
        default_out == IF no_path /\ narrow /\ for_us THEN "Backbone" ELSE ""
        \* link transport
        link_out == IF accepted /\ ~is_lrproof /\ dest \in DOMAIN links
                    THEN link_outbound(links[dest], iface, p.hops) ELSE ""
        \* the proof of a link goes back the way the request came
        lrproof_out == IF accepted /\ is_lrproof /\ dest \in DOMAIN links
                          /\ iface = links[dest].outbound_interface
                       THEN links[dest].receiving_interface ELSE ""
        \* the proof of a packet goes back by the reverse table
        rev_hit == accepted /\ p.packet_type = PROOF_TYPE /\ ~is_lrproof
                   /\ dest \in DOMAIN reverse_table
        proof_out == IF rev_hit /\ iface = reverse_table[dest].outbound_interface
                     THEN reverse_table[dest].receiving_interface ELSE ""
        hl1 == IF accepted /\ ~deferred
               THEN hashlist_insert(packet_hashlist, p.packet_hash)
               ELSE packet_hashlist
        hl2 == IF link_out # "" THEN hashlist_insert(hl1, p.packet_hash) ELSE hl1
        rt1 == IF rev_hit THEN map_erase(reverse_table, dest) ELSE reverse_table
        rt2 == IF path_out # ""
               THEN reverse_entry(rt1, p.packet_hash, iface, path_out, os_time)
               ELSE IF default_out # ""
               THEN reverse_entry(rt1, p.packet_hash, iface, default_out, os_time)
               ELSE rt1
        lt1 == IF link_out # "" THEN link_refresh(links, dest, os_time)
               ELSE IF lrproof_out # "" THEN lrproof(links, dest)
               ELSE links
    IN [hashlist |-> hl2, reverse |-> rt2, links |-> lt1,
        log |-> [kind |-> "inbound", packet |-> p, iface |-> iface,
                 accepted |-> accepted,
                 was_listed |-> InList(packet_hashlist, p.packet_hash),
                 to_link |-> dest \in DOMAIN links,
                 had_path |-> has_path,
                 requested |-> IF requested THEN {dest} ELSE {},
                 path_out |-> path_out,
                 default_out |-> default_out,
                 sent_as |-> IF default_out # "" THEN strip_transport(p) ELSE p,
                 link_out |-> link_out,
                 lrproof_out |-> lrproof_out,
                 proof_out |-> proof_out,
                 reverse_was |-> IF dest \in DOMAIN reverse_table
                                 THEN {reverse_table[dest]} ELSE {},
                 link_was |-> IF dest \in DOMAIN links THEN {links[dest]} ELSE {},
                 \* packets of a link that came in where the link does not
                 \* go, and have not come in where it goes
                 after_miss |-> p.packet_hash \in h_in.missed,
                 missed |-> IF accepted /\ ~is_lrproof /\ dest \in DOMAIN links
                               /\ link_out = ""
                            THEN h_in.missed \cup {p.packet_hash}
                            ELSE h_in.missed \ {p.packet_hash}]]

Inbound(p, iface) ==
    /\ UNCHANGED <<regVars, h_round, h_served, localVars, tcpVars, histVars, h_bcast, h_loop>>
    /\ UNCHANGED <<os_time, destination_table, lr, n_tick>>
    /\ UNCHANGED <<announce_cache, pending_local_path_requests, h_requested>>
    /\ h_path' = NoPathOp
    /\ h_link' = NoLinkOp
    /\ \E r \in {inbound(p, iface)} :
         /\ packet_hashlist' = r.hashlist
         /\ reverse_table' = r.reverse
         /\ link_table' = r.links
         /\ h_in' = r.log

\* the link request that sets the link up
InboundLinkRequest ==
    /\ LinkRequest(InboundLink)
    /\ InboundLink.link_id \notin DOMAIN link_table

\* the hash list at its size in the firmware: the hashes are numbered in
\* the order in which they are first met
MaxHashes == 40

Newest(hashlist) == IF hashlist = <<>> THEN 0 ELSE hashlist[Len(hashlist)]

HashlistInsert(h) ==
    /\ UNCHANGED <<regVars, h_round, h_served, localVars, tcpVars, histVars, h_bcast, h_loop, routerVars>>
    /\ UNCHANGED <<announce_cache, pending_local_path_requests, h_requested,
                   reverse_table>>
    /\ h <= MaxHashes
    /\ packet_hashlist' = hashlist_put(packet_hashlist, h, HASHLIST_MAXSIZE)
    /\ h_in' = [kind |-> "insert", hash |-> h, missed |-> {},
                was_listed |-> InList(packet_hashlist, h),
                was_full |-> Len(packet_hashlist) = HASHLIST_MAXSIZE,
                oldest |-> IF packet_hashlist = <<>> THEN 0 ELSE Head(packet_hashlist)]

InitHashlist ==
    /\ InitTcp(TCP_IF_MODE_CLIENT, {TRUE})
    /\ RouterWith(EmptyMap)

NextHashlist ==
    \E h \in {Newest(packet_hashlist) + 1} \cup {packet_hashlist[k] : k \in 1 .. Len(packet_hashlist)} :
        HashlistInsert(h)

SpecHashlist == InitHashlist /\ [][NextHashlist]_vars

InitInbound ==
    /\ InitTcp(TCP_IF_MODE_CLIENT, {TRUE})
    /\ RouterAt(KnownPaths, InboundTime)

NextInbound ==
    \/ InboundLinkRequest
    \/ \E p \in InPackets, iface \in InterfaceIds : Inbound(p, iface)

SpecInbound == InitInbound /\ [][NextInbound]_vars

\* the data packets of the link that are looked up in the hashlist
LinkCopies == {p \in InPackets : /\ p.destination_hash = InboundLink.link_id
                                 /\ p.packet_type = DATA
                                 /\ p.context \notin ResourceContexts}

\* copies of the data packets of one link come in on the three interfaces
\* in any order, while time passes
NextCopies ==
    \/ InboundLinkRequest
    \/ \E p \in LinkCopies, iface \in InterfaceIds : Inbound(p, iface)
    \/ Elapse(1, MaxTicks)

SpecCopies == InitInbound /\ [][NextCopies]_vars

\* ------------------------------------------------------------------------
\* Transport: announces from the backbone and the path requests of local
\* nodes (selective backbone caching)
\* ------------------------------------------------------------------------
\* the destinations announced and asked for
BoundaryHashes == {1, 2}
\* the interfaces local nodes ask on
NarrowInterfaces == {iface \in InterfaceIds : InterfaceMode(iface) # MODE_BOUNDARY}

\* variant: every announce from the backbone goes into the path table
announce_wanted_always(pending, hash) == TRUE

\* an announce from the backbone goes into the path table only for a hash
\* a local node is waiting for
announce_wanted(pending, hash) == hash \in DOMAIN pending

\* the path entry made of a cached announce of the backbone
CachedSource == CHOOSE src \in PathSources : InterfaceMode(src.iface) = MODE_BOUNDARY

\* the destinations of the node itself
OwnHashes == {3}

\* variant: an announce is rebroadcast on every other interface
announce_rebroadcast_everywhere(from) == InterfaceIds \ {from}

\* the interfaces an announce that came in on from is rebroadcast on: not
\* the one it came in on, and none in access point mode
announce_rebroadcast(from) ==
    {iface \in InterfaceIds \ {from} : InterfaceMode(iface) # MODE_ACCESS_POINT}

\* the node announces a destination of its own, on every interface
OwnAnnounce(hash) ==
    /\ UNCHANGED <<regVars, h_round, h_served, localVars, tcpVars, histVars, h_bcast, h_loop>>
    /\ UNCHANGED <<routerVars, packet_hashlist, reverse_table, h_requested,
                   announce_cache, pending_local_path_requests>>
    /\ h_in' = [kind |-> "own_announce", hash |-> hash, sent_on |-> InterfaceIds,
                answered |-> {}, missed |-> {}]

\* an announce for hash comes in from src
AnnounceIn(hash, src) ==
    /\ UNCHANGED <<regVars, h_round, h_served, tcpVars, histVars, h_bcast, h_loop>>
    /\ boundary_local_addresses' =
           IF src.iface = "LoRa" THEN boundary_local_addresses \cup {hash}
           ELSE boundary_local_addresses
    /\ UNCHANGED <<os_time, link_table, h_link, lr, n_tick>>
    /\ UNCHANGED <<packet_hashlist, reverse_table, h_requested>>
    /\ h_path' = NoPathOp
    /\ LET boundary == InterfaceMode(src.iface) = MODE_BOUNDARY
           was_pending == hash \in DOMAIN pending_local_path_requests
           stored == ~boundary
                     \/ announce_wanted(pending_local_path_requests, hash)
       IN  /\ announce_cache' = IF boundary THEN announce_cache \cup {hash}
                                ELSE announce_cache
           /\ \E victim \in Victims(destination_table, hash) :
                destination_table' =
                    IF stored
                    THEN upsert(destination_table, hash, DestinationEntry(src), victim)
                    ELSE destination_table
           /\ pending_local_path_requests' =
                  IF boundary /\ was_pending
                  THEN map_erase(pending_local_path_requests, hash)
                  ELSE pending_local_path_requests
           /\ h_in' = [kind |-> "announce", hash |-> hash, iface |-> src.iface,
                       was_pending |-> was_pending,
                       was_cached |-> hash \in announce_cache,
                       had_path |-> hash \in DOMAIN destination_table,
                       stored |-> stored,
                       answered |-> IF boundary /\ was_pending
                                    THEN {pending_local_path_requests[hash]}
                                    ELSE {},
                       from_cache |-> boundary /\ was_pending,
                       sent_on |-> announce_rebroadcast(src.iface),
                       asked_on |-> {iface \in InterfaceIds : was_pending
                                       /\ pending_local_path_requests[hash] = iface},
                       missed |-> {}]

\* a local node asks on iface for a path to hash
PathRequestIn(hash, iface) ==
    /\ UNCHANGED <<regVars, h_round, h_served, localVars, tcpVars, histVars, h_bcast, h_loop>>
    /\ UNCHANGED <<os_time, link_table, h_link, lr, n_tick>>
    /\ UNCHANGED <<packet_hashlist, reverse_table, announce_cache>>
    /\ h_path' = NoPathOp
    /\ h_requested' = h_requested \cup {hash}
    /\ LET had_path == hash \in DOMAIN destination_table
           cached == hash \in announce_cache
           from_cache == ~had_path /\ cached
       IN  /\ \E victim \in Victims(destination_table, hash) :
                destination_table' =
                    IF from_cache
                    THEN upsert(destination_table, hash,
                                DestinationEntry(CachedSource), victim)
                    ELSE destination_table
           /\ pending_local_path_requests' =
                  IF had_path \/ cached
                  THEN map_erase(pending_local_path_requests, hash)
                  ELSE map_insert(map_erase(pending_local_path_requests, hash),
                                  hash, iface)
           /\ h_in' = [kind |-> "path_request", hash |-> hash, iface |-> iface,
                       was_pending |-> hash \in DOMAIN pending_local_path_requests,
                       was_cached |-> cached,
                       had_path |-> had_path,
                       stored |-> from_cache,
                       answered |-> IF had_path \/ cached THEN {iface} ELSE {},
                       from_cache |-> from_cache,
                       sent_on |-> {},
                       asked_on |-> {iface},
                       missed |-> {}]

InitBoundary ==
    /\ InitTcp(TCP_IF_MODE_CLIENT, {TRUE})
    /\ RouterWith(EmptyMap)

NextBoundary ==
    \/ \E hash \in BoundaryHashes, src \in PathSources : AnnounceIn(hash, src)
    \/ \E hash \in BoundaryHashes, iface \in NarrowInterfaces : PathRequestIn(hash, iface)
    \/ \E hash \in OwnHashes : OwnAnnounce(hash)

SpecBoundary == InitBoundary /\ [][NextBoundary]_vars

\* the size proposed for _boundary_local_addresses, which has none
LOCAL_ADDRESSES_CAP == 200
\* the devices that announce on the radio, one more than that size
MaxLocalDevices == 201

\* what an announce heard on the radio says
LoRaSource == CHOOSE src \in PathSources : src.iface = "LoRa"

\* a device not heard before, or the one heard last, announces on the radio
LocalAnnounce ==
    /\ os_time = Cardinality(boundary_local_addresses)
    /\ \E hash \in {os_time, os_time + 1} \ {0} :
         /\ hash <= MaxLocalDevices
         /\ AnnounceIn(hash, LoRaSource)

\* a second passes between two devices
LocalElapse ==
    /\ os_time < Cardinality(boundary_local_addresses)
    /\ Elapse(1, MaxLocalDevices)

NextLocal ==
    \/ LocalAnnounce
    \/ LocalElapse

\* transient devices announce on the radio, one a second
SpecLocal == InitBoundary /\ [][NextLocal]_vars

\* ------------------------------------------------------------------------
\* Transport: the registered interfaces
\* ------------------------------------------------------------------------
\* the firmware runs up to three interfaces
MaxInterfaces == 3

\* const char* name = "BackboneInterface"
DefaultName == "BackboneInterface"

\* the names interfaces are made with: a TcpInterface made without a name
\* has the default one
InterfaceNames == {"LoRaInterface", "LocalTcpInterface", DefaultName}

\* an interface made with this name is registered: the map of interfaces
\* stores one interface for a hash
RegisterInterface(name) ==
    /\ UNCHANGED <<tcpVars, histVars, h_bcast, h_loop, routerVars, inboundVars, h_round,
                   h_served, localVars>>
    /\ ~router_running
    /\ Len(registered) < MaxInterfaces
    /\ registered' = Append(registered, name)
    /\ interfaces' = map_insert(interfaces, interface_hash(name), Len(registered) + 1)
    /\ UNCHANGED <<router_running, h_routed>>

\* the router starts with the interfaces registered so far
StartRouter ==
    /\ UNCHANGED <<tcpVars, histVars, h_bcast, h_loop, routerVars, inboundVars, h_round,
                   h_served, localVars>>
    /\ ~router_running
    /\ registered # <<>>
    /\ router_running' = TRUE
    /\ UNCHANGED <<registered, interfaces, h_routed>>

\* a packet is to go out on the k-th interface: the interface is looked up
\* by its hash
RoutePacket(k) ==
    /\ UNCHANGED <<tcpVars, histVars, h_bcast, h_loop, routerVars, inboundVars, h_round,
                   h_served, localVars>>
    /\ router_running
    /\ k \in 1 .. Len(registered)
    /\ h_routed' = [kind |-> "route", wanted |-> k,
                    resolved |-> interfaces[interface_hash(registered[k])]]
    /\ UNCHANGED <<registered, interfaces, router_running>>

InitRegister ==
    /\ InitTcp(TCP_IF_MODE_CLIENT, {TRUE})
    /\ TablesAt(EmptyMap, 0)
    /\ registered = <<>>
    /\ interfaces = EmptyMap
    /\ router_running = FALSE
    /\ h_routed = NoRoute

NextRegister ==
    \/ \E name \in InterfaceNames : RegisterInterface(name)
    \/ StartRouter
    \/ \E k \in 1 .. MaxInterfaces : RoutePacket(k)

SpecRegister == InitRegister /\ [][NextRegister]_vars

\* C1: a frame whose destuffed payload is longer than HW_MTU is never handed
\* to handle_incoming, whole or truncated: what a read of a connection
\* delivers is exactly the frames of its byte stream that end in that read
\* and fit HW_MTU, each intact and in order, and the connection stays active.
C1_OversizedDropped ==
    \A i \in Slots :
        /\ h_ref[i] # RefIdle => clients[i].active
        /\ h_delivered[i] = SelectSeq(h_ref[i].out, FitsMtu)

\* an oversized frame was received and dropped, and a later frame delivered
C1_Witness ==
    \E i \in Slots :
        /\ clients[i].active
        /\ h_ref[i].dropped
        /\ h_ref[i].out # <<>>
        /\ \A k \in 1 .. Len(h_ref[i].out) : FitsMtu(h_ref[i].out[k])
        /\ h_delivered[i] = h_ref[i].out


\* C2: server role; a send_outgoing made while a frame from connection K is
\* being delivered calls write on every other connection that was active and
\* connected when it began, also on those after a connection whose write
\* failed and was torn down, and never on K.
C2_NoEchoToSender ==
    (mode = TCP_IF_MODE_SERVER /\ h_bcast.k # -1) =>
        /\ h_bcast.k \notin h_bcast.calls
        /\ h_bcast.calls = h_bcast.pre \ {h_bcast.k}
        /\ h_bcast.torn \subseteq h_bcast.calls
        /\ h_bcast.got \subseteq h_bcast.calls \ h_bcast.torn

\* a broadcast from K among three connections in which a write failed and a
\* later slot was still written
C2_Witness ==
    /\ mode = TCP_IF_MODE_SERVER
    /\ h_bcast.k \in h_bcast.pre
    /\ Cardinality(h_bcast.pre) >= 3
    /\ \E i \in h_bcast.torn, j \in h_bcast.got : i < j /\ ~clients[i].active


\* a step in which _connect_client ran
ConnectCalled == h_connect'.calls # h_connect.calls

\* C3 as stated: every _connect_client call that returns without a
\* connection doubles the reconnect interval up to TCP_IF_RECONNECT_MAX,
\* and a call that connects sets the interval to TCP_IF_RECONNECT_MIN and
\* the failure counter to 0.
C3_AsStated ==
    [][ConnectCalled =>
          IF clients'[0].active
          THEN reconnect_interval' = TCP_IF_RECONNECT_MIN /\ consecutive_failures' = 0
          ELSE reconnect_interval' = Min(2 * reconnect_interval, TCP_IF_RECONNECT_MAX)]_vars

\* C3 amended: the same, for an interface with a non-empty target host.
C3_Backoff ==
    [][(ConnectCalled /\ target_host) =>
          IF clients'[0].active
          THEN reconnect_interval' = TCP_IF_RECONNECT_MIN /\ consecutive_failures' = 0
          ELSE /\ reconnect_interval' = Min(2 * reconnect_interval, TCP_IF_RECONNECT_MAX)
               /\ reconnect_interval' \in {20000, 40000, 80000, 120000}]_vars

\* five failures in a row, the last two at the cap, then a success
C3_Witness ==
    /\ mode = TCP_IF_MODE_CLIENT
    /\ h_connect.result = "connected"
    /\ h_connect.failed_before >= 5
    /\ clients[0].active
    /\ reconnect_interval = TCP_IF_RECONNECT_MIN
    /\ consecutive_failures = 0

\* ------------------------------------------------------------------------
\* The path table
\* ------------------------------------------------------------------------
PathCount == Cardinality(DOMAIN destination_table)

\* C4: after any sequence of upserts the path table holds at most its
\* capacity of entries; an upsert of a new hash into a full table evicts
\* exactly one entry and then inserts, and is never turned away: the hash
\* just upserted is in the table
C4_PathTableBounded ==
    /\ PathCount <= PathTableCap
    /\ h_path.kind = "upsert" =>
         /\ h_path.hash \in DOMAIN destination_table
         /\ (h_path.was_full /\ ~h_path.replaced) =>
              /\ h_path.evicted # 0
              /\ h_path.evicted \notin DOMAIN destination_table
              /\ PathCount = PathTableCap

C4_Witness ==
    /\ h_path.kind = "upsert"
    /\ h_path.was_full
    /\ ~h_path.replaced
    /\ h_path.evicted # 0

\* the entries an upsert took out of the table to make room
EvictedNow ==
    IF h_path'.kind = "upsert"
    THEN (DOMAIN destination_table) \ ((DOMAIN destination_table') \cup {h_path'.hash})
    ELSE {}

\* C5: an entry evicted by overflow is the boundary-origin entry with the
\* oldest timestamp whenever the table holds a boundary-origin entry, even
\* if a non-boundary entry is older; a non-boundary entry is evicted only
\* when there is no boundary-origin entry, and is then the oldest of all
C5_EvictionOrder ==
    [][\A e \in EvictedNow :
         LET t == destination_table
             B == {k \in DOMAIN t : t[k].is_boundary_origin}
         IN  IF B # {}
             THEN /\ e \in B
                  /\ \A k \in B : t[e].timestamp <= t[k].timestamp
             ELSE \A k \in DOMAIN t : t[e].timestamp <= t[k].timestamp]_vars

C5_Witness ==
    /\ h_path.kind = "upsert"
    /\ h_path.evicted # 0
    /\ h_path.older_local

\* C6: an upsert for a hash already in the table leaves exactly one entry
\* for that hash, whose every field is the one the upsert gave; the size of
\* the table and the other entries are unchanged
C6_UpsertReplaces ==
    [][(h_path'.kind = "upsert" /\ h_path'.hash \in DOMAIN destination_table) =>
         /\ DOMAIN destination_table' = DOMAIN destination_table
         /\ destination_table'[h_path'.hash] = h_path'.entry
         /\ h_path'.entry.timestamp = os_time
         /\ \A k \in (DOMAIN destination_table) \ {h_path'.hash} :
              destination_table'[k] = destination_table[k]]_vars

C6_Witness ==
    /\ h_path.kind = "upsert"
    /\ h_path.replaced
    /\ h_path.changed_all
    /\ destination_table[h_path.hash] = h_path.entry

\* ------------------------------------------------------------------------
\* The link table
\* ------------------------------------------------------------------------
ProofAccepted(id) ==
    /\ h_link'.kind = "proof"
    /\ h_link'.link_id = id
    /\ h_link'.accepted

\* C7: the validated flag of a stored link entry only ever goes from false
\* to true, and only in the step that accepts a link proof addressed to that
\* link id; that step leaves the stored entry validated; a new entry starts
\* unvalidated, and no other packet sets the flag
C7_ValidatedOnce ==
    [][/\ \A id \in (DOMAIN link_table) \cap (DOMAIN link_table') :
            /\ link_table[id].validated => link_table'[id].validated
            /\ (~link_table[id].validated /\ link_table'[id].validated)
                 => ProofAccepted(id)
       /\ \A id \in (DOMAIN link_table') \ (DOMAIN link_table) :
            ~link_table'[id].validated
       /\ \A id \in LinkIds :
            ProofAccepted(id) => /\ id \in DOMAIN link_table'
                                 /\ link_table'[id].validated]_vars

C7_Witness ==
    /\ h_link.kind = "proof"
    /\ h_link.accepted
    /\ ~h_link.was_validated
    /\ link_table[h_link.link_id].validated

\* C8: right after a data or keepalive frame of a link is forwarded, the
\* timestamp of the stored entry is the time of that forward, whatever the
\* number of frames forwarded before it
C8_TimestampRefreshed ==
    (h_link.kind = "data" /\ h_link.forwarded) =>
        /\ h_link.link_id \in DOMAIN link_table
        /\ link_table[h_link.link_id].timestamp = os_time

\* a later frame of a link forwarded before: the stored time is neither the
\* creation time nor that of the earlier frame
C8_Witness ==
    /\ h_link.kind = "data"
    /\ h_link.forwarded
    /\ CreatedAt(link_table[h_link.link_id]) < h_link.before
    /\ h_link.before < os_time
    /\ link_table[h_link.link_id].timestamp = os_time

\* C9: the janitor removes every unvalidated entry whose proof_timeout has
\* passed, whether or not LINK_TIMEOUT has; it removes a validated entry
\* only when more than LINK_TIMEOUT has passed since its timestamp, never
\* for its proof_timeout alone
C9_JanitorTimeouts ==
    [][h_link'.kind = "jobs" =>
         \A id \in DOMAIN link_table :
            LET e == link_table[id] IN
            /\ (~e.validated /\ os_time > e.proof_timeout)
                 => id \notin DOMAIN link_table'
            /\ (e.validated /\ id \notin DOMAIN link_table')
                 => os_time > e.timestamp + LINK_TIMEOUT
            /\ (e.validated /\ os_time <= e.timestamp + LINK_TIMEOUT)
                 => /\ id \in DOMAIN link_table'
                    /\ link_table'[id] = e]_vars

\* one sweep that takes an unvalidated entry before LINK_TIMEOUT and leaves
\* a validated one whose proof_timeout has passed
C9_Witness ==
    /\ h_link.kind = "jobs"
    /\ h_link.early
    /\ h_link.late

\* ------------------------------------------------------------------------
\* The MTU of a link request
\* ------------------------------------------------------------------------
\* the MTU and the mode the signalling bytes at the end of raw stand for
MtuOf(raw) ==
    (raw[Len(raw) - 2] % 32) * 65536 + raw[Len(raw) - 1] * 256 + raw[Len(raw)]
ModeOf(raw) == raw[Len(raw) - 2] \div 32

Min3(a, b, c) == Min(a, Min(b, c))

C11_NoPathRequestForLink ==
    h_in.kind = "inbound" =>
        /\ \A id \in h_in.requested : id = h_in.packet.destination_hash
        /\ h_in.to_link => h_in.requested = {}

\* a packet of the link in transport form has come in from LoRa, accepted and
\* without a path: both places that ask for a path were passed, none asked
C11_Witness ==
    /\ h_in.kind = "inbound"
    /\ h_in.accepted
    /\ h_in.to_link
    /\ ~h_in.had_path
    /\ h_in.packet.header_type = HEADER_2
    /\ InterfaceMode(h_in.iface) # MODE_BOUNDARY
    /\ h_in.requested = {}
    /\ h_in.packet.destination_hash \notin DOMAIN destination_table

\* what went out in the last step
Forwarded ==
    {h_in.path_out, h_in.default_out, h_in.link_out, h_in.lrproof_out,
     h_in.proof_out} \ {""}

IsLinkProof(p) == p.packet_type = PROOF_TYPE /\ p.context = LRPROOF

\* C12, as stated: an accepted packet that is neither addressed to a link_id
\* in the link table nor a link proof has its hash in the hashlist as soon as
\* inbound() returns, and an arrival of a hash that is in the hashlist is
\* dropped and nothing is sent, whatever the interface.
C12_AsStated ==
    (h_in.kind = "inbound" /\ ~h_in.to_link /\ ~IsLinkProof(h_in.packet)) =>
        /\ h_in.accepted => InList(packet_hashlist, h_in.packet.packet_hash)
        /\ h_in.was_listed => (~h_in.accepted /\ Forwarded = {})

\* C12, amended: as above, but the arrival of a listed hash is dropped only
\* outside the resource contexts, which packet_filter accepts without a
\* look at the hashlist.
C12_DuplicateDropped ==
    (h_in.kind = "inbound" /\ ~h_in.to_link /\ ~IsLinkProof(h_in.packet)) =>
        /\ h_in.accepted => InList(packet_hashlist, h_in.packet.packet_hash)
        /\ (h_in.was_listed /\ h_in.packet.context \notin ResourceContexts)
               => (~h_in.accepted /\ Forwarded = {})

\* the packet 34 went to the backbone by the default route when it came in
\* from a narrow interface; its second arrival, on the backbone, is dropped
C12_Witness ==
    /\ h_in.kind = "inbound"
    /\ h_in.packet.packet_hash = 34
    /\ h_in.iface = "Backbone"
    /\ h_in.was_listed
    /\ ~h_in.accepted
    /\ Forwarded = {}
    /\ 34 \in DOMAIN reverse_table
    /\ reverse_table[34].receiving_interface # "Backbone"

\* C13, as stated: the hash of a packet addressed to a link_id in the link
\* table gets into the hashlist only in the step that forwards the packet in
\* a valid direction of the link; a copy that comes in where the link does
\* not go leaves the hashlist alone, so the copy on the right interface is
\* accepted and forwarded; a copy whose hash is in the hashlist is dropped.
C13_AsStated ==
    (h_in.kind = "inbound" /\ h_in.to_link /\ ~IsLinkProof(h_in.packet)) =>
        /\ ~h_in.was_listed =>
              /\ h_in.accepted
              /\ InList(packet_hashlist, h_in.packet.packet_hash)
                    <=> h_in.link_out # ""
        /\ h_in.was_listed => (~h_in.accepted /\ h_in.link_out = "")

\* C13, amended: as above, but the copy that follows the forward is dropped
\* only outside the resource contexts.
C13_DeferredInsertion ==
    (h_in.kind = "inbound" /\ h_in.to_link /\ ~IsLinkProof(h_in.packet)) =>
        /\ ~h_in.was_listed =>
              /\ h_in.accepted
              /\ InList(packet_hashlist, h_in.packet.packet_hash)
                    <=> h_in.link_out # ""
        /\ (h_in.was_listed /\ h_in.packet.context \notin ResourceContexts)
               => (~h_in.accepted /\ h_in.link_out = "")

\* a data packet of the link came in first where the link does not go, and
\* its copy on the right interface has now been accepted and forwarded
C13_Witness ==
    /\ h_in.kind = "inbound"
    /\ h_in.to_link
    /\ h_in.packet.context = CONTEXT_NONE
    /\ h_in.after_miss
    /\ ~h_in.was_listed
    /\ h_in.accepted
    /\ h_in.link_out # ""
    /\ InList(packet_hashlist, h_in.packet.packet_hash)

C18_SelectiveCaching ==
    /\ \A hash \in BoundaryOrigin(destination_table) : hash \in h_requested
    /\ (h_in.kind = "announce" /\ InterfaceMode(h_in.iface) = MODE_BOUNDARY) =>
          /\ h_in.hash \in announce_cache
          /\ h_in.stored <=> h_in.was_pending
    /\ (h_in.kind \in {"announce", "path_request"} /\ h_in.from_cache) =>
          /\ h_in.hash \in announce_cache
          /\ h_in.answered # {}
          /\ h_in.answered \subseteq NarrowInterfaces
          /\ h_in.hash \in BoundaryOrigin(destination_table)
          /\ h_in.hash \notin DOMAIN pending_local_path_requests

\* the announce of 1 came in from the backbone while a local node was
\* waiting for it: the node is answered and the entry made; the announce of
\* 2, which no one asked for, is in the cache and not in the path table
C18_Witness ==
    /\ h_in.kind = "announce"
    /\ h_in.hash = 1
    /\ InterfaceMode(h_in.iface) = MODE_BOUNDARY
    /\ h_in.was_pending
    /\ h_in.stored
    /\ 1 \in BoundaryOrigin(destination_table)
    /\ 2 \in announce_cache
    /\ 2 \notin DOMAIN destination_table
    /\ 2 \notin h_requested

\* C20: while the router runs, no two registered interfaces have the same
\* name-derived hash: with two interfaces of one hash registered, the start
\* fails and no packet is ever routed.
C20_DistinctIdentities ==
    router_running =>
        \A j, k \in 1 .. Len(registered) :
            j # k => interface_hash(registered[j]) # interface_hash(registered[k])

\* C14: a connection on which a write returned 0, in send_outgoing or in the
\* keepalive of loop(), or whose read timeout had run out when loop() came
\* to it, is torn down by the end of that step: the slot is inactive, its
\* framing state is reset, the count of clients is that of the active slots,
\* and nothing was handed to the router.
C14_TornDownAtOnce ==
    /\ \A i \in h_loop.ka_failed \cup h_loop.timed_out \cup h_bcast.zero :
          /\ ~clients[i].active
          /\ ~clients[i].in_frame
          /\ ~clients[i].escape
          /\ ~clients[i].truncated
          /\ clients[i].rxlen = 0
    /\ num_clients = Cardinality({i \in Slots : clients[i].active})
    /\ h_loop.handed = 0

\* C15: a flag that ends a frame without a byte in it never makes the
\* deframer call handle_incoming: of the frames a read of a connection sees
\* ended by a flag, the ones delivered are, in number, those with at least
\* one and at most HW_MTU destuffed bytes, and no delivered payload is empty.
C15_EmptyFrameSkipped ==
    \A i \in Slots :
        /\ Len(h_delivered[i]) =
              Cardinality({k \in 1 .. Len(h_ref[i].out) :
                              /\ PayLen(h_ref[i].out[k]) > 0
                              /\ PayLen(h_ref[i].out[k]) <= TCP_IF_HW_MTU})
        /\ \A k \in 1 .. Len(h_delivered[i]) : PayLen(h_delivered[i][k]) > 0
        /\ (h_ref[i].empties > 0 /\ h_ref[i].out = <<>>) => h_delivered[i] = <<>>

\* a flag has come in right after a flag, on a connection that is inside a
\* frame: a frame without bytes ended, and nothing was delivered
C15_Witness ==
    \E i \in Slots :
        /\ clients[i].active
        /\ clients[i].in_frame
        /\ h_ref[i].empties > 0
        /\ h_ref[i].out = <<>>
        /\ h_delivered[i] = <<>>

\* the first n bytes of a byte string
RECURSIVE TakeBytes(_, _)
TakeBytes(p, n) ==
    IF n <= 0 \/ p = <<>> THEN <<>>
    ELSE IF Head(p).n >= n THEN <<[b |-> Head(p).b, n |-> n]>>
    ELSE <<Head(p)>> \o TakeBytes(Tail(p), n - Head(p).n)

\* C17: on every connection rxlen is at most HW_MTU and the buffer holds
\* the first rxlen bytes of the frame in progress; a byte of the frame that
\* comes in at rxlen = HW_MTU is not stored and leaves rxlen as it is, and
\* the frame is marked truncated from that byte on until the flag that
\* ends it (or the teardown): the mark is set exactly while the frame in
\* progress has more than HW_MTU bytes.
C17_RxBounded ==
    \A i \in Slots :
        /\ clients[i].rxlen <= TCP_IF_HW_MTU
        /\ clients[i].rxlen = PayLen(clients[i].rxbuf)
        /\ clients[i].active =>
              /\ clients[i].in_frame = h_ref[i].inf
              /\ clients[i].rxbuf = TakeBytes(h_ref[i].cur, TCP_IF_HW_MTU)
              /\ clients[i].truncated <=> PayLen(h_ref[i].cur) > TCP_IF_HW_MTU

\* a frame in progress is two bytes over HW_MTU: the buffer is full, the
\* mark was set by the first byte over and is still set after the second
C17_Witness ==
    \E i \in Slots :
        /\ clients[i].active
        /\ clients[i].truncated
        /\ clients[i].rxlen = TCP_IF_HW_MTU
        /\ PayLen(h_ref[i].cur) >= TCP_IF_HW_MTU + 2

\* C16, as stated: a payload of 1 .. HW_MTU bytes framed as send_outgoing
\* frames it and read by _hdlc_deframe, whatever the framing state of the
\* connection, delivers one packet, the payload, and the framed bytes have
\* no flag between the first and the last.
C16_AsStated ==
    h_round.state = "done" =>
        /\ h_round.delivered = <<h_round.payload>>
        /\ ~h_round.inner_flag

\* C16, amended: the payload is the last packet delivered and is intact, and
\* no flag lies between the two delimiting flags; it is the only packet
\* delivered unless the connection held bytes of an unfinished frame that
\* is not marked truncated, which the opening flag ends and delivers first.
C16_RoundTrip ==
    h_round.state = "done" =>
        /\ ~h_round.inner_flag
        /\ h_round.flen <= FRAME_BUF_SIZE
        /\ h_round.delivered # <<>>
        /\ h_round.delivered[Len(h_round.delivered)] = h_round.payload
        /\ Len(h_round.delivered) =
              IF h_round.before.in_frame /\ h_round.before.rxlen > 0
                 /\ ~h_round.before.truncated
              THEN 2 ELSE 1

\* HW_MTU flag bytes were framed and read back whole on a connection that
\* was inside a frame, after an escape byte
C16_Witness ==
    /\ h_round.state = "done"
    /\ h_round.payload = <<[b |-> HDLC_FLAG, n |-> TCP_IF_HW_MTU]>>
    /\ h_round.before.in_frame
    /\ h_round.before.escape
    /\ h_round.delivered = <<h_round.payload>>
    /\ h_round.flen = 2 * TCP_IF_HW_MTU + 2

ActiveSlots == {i \in Slots : clients[i].active}

\* C28: at most TCP_IF_MAX_CLIENTS connections are active, and the count
\* agrees; a connection that arrives while every slot is active is closed
\* and leaves every slot, its framing state and the count as they were; a
\* connection is turned away only when every slot is active.
C28_SlotsBounded ==
    [][/\ Cardinality(ActiveSlots') <= TCP_IF_MAX_CLIENTS
       /\ num_clients' <= TCP_IF_MAX_CLIENTS
       /\ (n_accept' = n_accept + 1 /\ ActiveSlots = Slots)
             => /\ h_loop'.rejected
                /\ clients' = clients
                /\ num_clients' = num_clients
       /\ h_loop'.rejected => ActiveSlots = Slots]_vars

\* a connection was turned away with every slot active, the first slot
\* holding bytes of an unfinished frame
C28_Witness ==
    /\ h_loop.rejected
    /\ ActiveSlots = Slots
    /\ num_clients = TCP_IF_MAX_CLIENTS
    /\ clients[0].in_frame
    /\ clients[0].rxlen > 0

\* a step that tore down the connection of slot 0
TornDown == clients[0].active /\ ~clients'[0].active

\* C22: in client role the cached address goes from set to empty only in a
\* connection attempt that tried the cached address and failed. Tearing
\* down the connection (socket closed, read timeout, failed write) and an
\* attempt skipped with WiFi down leave it as it was; a failed lookup
\* leaves it as the attempt on the cached address left it; a failed connect
\* to a freshly resolved address leaves that address in the cache.
C22_CacheKept ==
    [][/\ (resolved_ip # 0 /\ resolved_ip' = 0)
             => h_loop'.attempt.made /\ h_loop'.attempt.used_cache
                /\ h_loop'.attempt.cached_failed
       /\ TornDown => resolved_ip' = resolved_ip
       /\ h_loop'.skipped => resolved_ip' = resolved_ip
       /\ ~h_loop'.attempt.made => resolved_ip' = resolved_ip
       /\ (h_loop'.attempt.made /\ h_loop'.attempt.dns_failed)
             => resolved_ip' = (IF h_loop'.attempt.used_cache THEN 0 ELSE resolved_ip)
       /\ (h_loop'.attempt.made /\ h_loop'.attempt.fresh_failed)
             => resolved_ip' = h_loop'.attempt.resolved /\ resolved_ip' # 0]_vars

\* in a third or later attempt the cached address failed, the lookup gave
\* an address and the connect to it failed too; the address stays cached
C22_Witness ==
    /\ mode = TCP_IF_MODE_CLIENT
    /\ h_loop.attempt.made
    /\ h_loop.attempt.cached_failed
    /\ h_loop.attempt.fresh_failed
    /\ resolved_ip # 0
    /\ ~clients[0].active
    /\ h_connect.calls >= 3

\* C25: what a read of a connection hands to the router is, position by
\* position, the frames whose closing flag came in that read, in the order
\* of those flags: none is handed over twice, none before an earlier one,
\* and none is kept back for a later read.
C25_ArrivalOrder ==
    \A i \in Slots :
        LET ended == SelectSeq(h_ref[i].out, FitsMtu)
        IN /\ Len(h_delivered[i]) = Len(ended)
           /\ \A k \in 1 .. Len(ended) : h_delivered[i][k] = ended[k]

\* a read ended a frame whose bytes came in two earlier reads and then a
\* different frame with a stuffed flag, and they were delivered in that order
C25_Witness ==
    /\ n_read >= 3
    /\ Len(h_delivered[0]) = 2
    /\ h_delivered[0][1] = <<[b |-> 69, n |-> 1], [b |-> 67, n |-> 1], [b |-> 70, n |-> 1]>>
    /\ h_delivered[0][2] = <<[b |-> 71, n |-> 1], [b |-> HDLC_FLAG, n |-> 1]>>
    /\ h_delivered[0][1] # h_delivered[0][2]

\* C30: the hash list never holds more than 32 hashes; with the hashes
\* numbered in the order they are first inserted, it holds exactly the 32
\* newest of them (all of them while there are fewer), oldest first, so a
\* hash is gone exactly when 32 newer ones have come after it; the hash a
\* full list gives up is the one inserted earliest.
C30_FifoBounded ==
    LET n == Len(packet_hashlist)
        newest == Newest(packet_hashlist)
    IN /\ n <= HASHLIST_MAXSIZE
       /\ n = Min(newest, HASHLIST_MAXSIZE)
       /\ \A k \in 1 .. n : packet_hashlist[k] = newest - n + k
       /\ \A h \in 1 .. MaxHashes :
             InList(packet_hashlist, h) <=> (h <= newest /\ newest - h < HASHLIST_MAXSIZE)
       /\ (h_in.kind = "insert" /\ h_in.was_full /\ ~h_in.was_listed)
             => /\ ~InList(packet_hashlist, h_in.oldest)
                /\ packet_hashlist[1] = h_in.oldest + 1

\* the 35th hash was inserted into a full list: hashes 1 to 3 are gone
C30_Witness ==
    /\ h_in.kind = "insert"
    /\ h_in.hash = 35
    /\ h_in.was_full
    /\ ~h_in.was_listed
    /\ h_in.oldest = 3
    /\ Len(packet_hashlist) = HASHLIST_MAXSIZE
    /\ Head(packet_hashlist) = 4

\* the last packet that came in was a link proof
ProofCameIn == h_in.kind = "inbound" /\ IsLinkProof(h_in.packet)

\* C24: the hash of a link proof is never in the hash list, so every copy
\* of a proof passes the filter, on whatever interface it comes in; a proof
\* that comes in where the link goes leaves the entry validated, and one
\* that finds the entry validated leaves the entry as it was.
C24_ProofNeverListed ==
    /\ \A p \in InPackets : IsLinkProof(p) => ~InList(packet_hashlist, p.packet_hash)
    /\ ProofCameIn =>
          /\ h_in.accepted
          /\ ~h_in.was_listed
          /\ h_in.lrproof_out # "" => link_table[h_in.packet.destination_hash].validated
          /\ \A e \in h_in.link_was :
                e.validated => link_table[h_in.packet.destination_hash] = e

\* a copy of a link proof came in where the link goes and was sent on,
\* the entry being validated already by an earlier copy
C24_Witness ==
    /\ ProofCameIn
    /\ h_in.accepted
    /\ h_in.lrproof_out # ""
    /\ \E e \in h_in.link_was : e.validated
    /\ link_table[h_in.packet.destination_hash].validated

\* the outbound interface of the link request declares no usable MTU
NoUsableMtu(iface) ==
    \/ iface.HW_MTU = 0
    \/ (~iface.FIXED_MTU /\ ~iface.AUTOCONFIGURE_MTU)

\* C27: a link request that carries signalling bytes and is sent on through
\* an interface with no usable MTU goes out as the bytes it came with less
\* the three signalling bytes at its end.
C27_SignallingStripped ==
    (/\ lr.state = "forwarded"
     /\ lr.packet.signalled
     /\ NoUsableMtu(lr.outbound_interface))
    => /\ Len(lr.new_raw) = Len(lr.packet.raw) - LINK_MTU_SIZE
       /\ lr.new_raw = SubSeq(lr.packet.raw, 1, Len(lr.packet.raw) - LINK_MTU_SIZE)
       /\ lr.new_raw = LrBody

Connected == clients[0].active /\ clients[0].connected

\* C29: client role, target host set. Once the connection is lost (the
\* socket is closed, or loop() has torn the slot down) the interface holds
\* a connection again later, whatever the number of failures before, given
\* that loop() keeps being called, WiFi comes back and attempts succeed
\* from some point on.
C29_ReconnectsEventually ==
    (started /\ mode = TCP_IF_MODE_CLIENT /\ target_host /\ ~Connected) ~> Connected

\* the connection is held again by the third attempt, the one before it
\* having failed
C29_Witness ==
    /\ Connected
    /\ h_connect.result = "connected"
    /\ h_connect.failed_before = 1
    /\ h_connect.calls = 3
    /\ reconnect_interval = TCP_IF_RECONNECT_MIN
    /\ consecutive_failures = 0

\* an announce or a path response went out in the last step
AnnounceOp == h_in.kind \in {"announce", "path_request", "own_announce"}

C21_TablesBounded ==
    /\ Cardinality(DOMAIN destination_table) <= PathTableCap
    /\ Len(packet_hashlist) <= HASHLIST_MAXSIZE
    /\ Cardinality(DOMAIN pending_local_path_requests) <= LOCAL_ADDRESSES_CAP
    /\ Cardinality(boundary_local_addresses) <= LOCAL_ADDRESSES_CAP

\* C31: a frame is handed to the router inside the deframing step. While
\* the delivery of a frame of connection K is in progress (the broadcast the
\* router makes of it included), K's slot is not written to and not torn
\* down, no byte of another connection is deframed and no other delivery
\* starts: every other slot is as it was, or was torn down by a failed
\* write; when the step ends no delivery is in progress.
C31_DeliverySynchronous ==
    [][h_bcast'.k >= 0 =>
          /\ clients[h_bcast'.k].active
          /\ clients'[h_bcast'.k].active
          /\ clients'[h_bcast'.k].connected
          /\ h_bcast'.k \notin h_bcast'.torn
          /\ last_rx_client_idx' = -1
          /\ \A j \in Slots \ {h_bcast'.k} :
                \/ clients'[j] = clients[j]
                \/ /\ j \in h_bcast'.torn
                   /\ clients'[j] = cleanup_client(Iface, j).clients[j]]_vars

\* the broadcast of a frame of connection 0 tore another connection down
\* and connection 0 is still there
C31_Witness ==
    /\ h_bcast.k = 0
    /\ h_bcast.torn # {}
    /\ clients[0].active
    /\ clients[0].connected
    /\ num_clients = Cardinality({i \in Slots : clients[i].active})

LinkCopyIn ==
    /\ h_in.kind = "inbound"
    /\ h_in.to_link
    /\ h_in.packet.packet_type = DATA
    /\ h_in.packet.context \notin ResourceContexts
    /\ h_in.packet.header_type = HEADER_1

\* C33, for the copies in broadcast form: copies of one data packet of a
\* link come in on three interfaces in any order. The router forwards the
\* packet at most once: the copy that is forwarded is one whose hash is not
\* in the hashlist, the forward puts the hash there, the hash stays there,
\* and a copy whose hash is there is dropped, nothing being sent for it on
\* any interface.
C33_ForwardedOnce ==
    [][/\ \A k \in 1 .. Len(packet_hashlist) :
             InList(packet_hashlist', packet_hashlist[k])
       /\ (LinkCopyIn' /\ h_in' # h_in) =>
             /\ Forwarded' # {} =>
                   /\ ~InList(packet_hashlist, h_in'.packet.packet_hash)
                   /\ InList(packet_hashlist', h_in'.packet.packet_hash)
                   /\ Forwarded' = {h_in'.link_out}
             /\ InList(packet_hashlist, h_in'.packet.packet_hash) =>
                   /\ ~h_in'.accepted
                   /\ Forwarded' = {}
                   /\ link_table' = link_table]_vars

\* a data packet of the link came in on the local server, where the link
\* does not go, then on the radio, from where it was sent on, and its third
\* copy, on the backbone, is dropped
C33_Witness ==
    /\ LinkCopyIn
    /\ h_in.iface = "Backbone"
    /\ h_in.was_listed
    /\ ~h_in.accepted
    /\ Forwarded = {}
    /\ h_in.missed = {}

\* a copy in transport form came in on a narrow interface where the link
\* does not go: it went to the backbone by the default route and its hash
\* is not in the hashlist
C33_DefaultRouted ==
    /\ h_in.kind = "inbound"
    /\ h_in.to_link
    /\ h_in.packet.header_type = HEADER_2
    /\ h_in.default_out = "Backbone"
    /\ h_in.link_out = ""
    /\ ~InList(packet_hashlist, h_in.packet.packet_hash)

\* C34: in every state _num_clients is the number of slots whose active
\* flag is set, so it lies in 0 .. TCP_IF_MAX_CLIENTS and isConnected() tells
\* whether some slot is active; in client role no slot but slot 0 is active.
C34_CountMatchesSlots ==
    /\ num_clients = Cardinality({i \in Slots : clients[i].active})
    /\ num_clients \in 0 .. TCP_IF_MAX_CLIENTS
    /\ (num_clients > 0) <=> (\E i \in Slots : clients[i].active)
    /\ mode = TCP_IF_MODE_CLIENT => \A i \in Slots \ {0} : ~clients[i].active

\* the server after a start, a stop and a second start, with one connection
\* left of two after a failed write
C34_Witness ==
    /\ mode = TCP_IF_MODE_SERVER
    /\ n_start = 2
    /\ started
    /\ h_bcast.torn # {}
    /\ num_clients = 1
    /\ clients[1].active
    /\ ~clients[0].active


\* C35: between deliveries _last_rx_client_idx is -1, so a send_outgoing
\* that Transport makes for a packet of another interface or for a timer
\* excludes no slot: it writes to every connection that is active and
\* connected when it is called.
C35_NoStaleExclusion ==
    /\ last_rx_client_idx = -1
    /\ (h_bcast.k = -1 /\ h_bcast.data # <<>>) =>
          /\ h_bcast.calls = h_bcast.pre
          /\ h_bcast.torn = h_bcast.zero

\* a send from outside a delivery, after a frame was delivered from slot 0,
\* that was written to slot 0 and to slot 1
C35_Witness ==
    /\ h_bcast.k = -1
    /\ h_bcast.data # <<>>
    /\ h_delivered[0] # <<>>
    /\ h_bcast.calls = {0, 1}
    /\ 0 \in h_bcast.got


\* C36: a packet other than the one received from connection K, sent on
\* the interface while K's frame is being processed, is written to K.
C36_ReplyWrittenToSender ==
    (/\ h_bcast.k >= 0
     /\ h_delivered[h_bcast.k] # <<>>
     /\ h_bcast.data # h_delivered[h_bcast.k][Len(h_delivered[h_bcast.k])]
     /\ h_bcast.k \in h_bcast.pre)
        => h_bcast.k \in h_bcast.calls


\* C37: a connection that _accept_client or _connect_client places in a
\* slot starts with empty framing state, whatever state the slot's previous
\* connection left; the frames delivered from the slot afterwards are those
\* of the new connection's own bytes, the ones before its first flag dropped.
C37_FreshSlot ==
    [][\A i \in Slots :
          /\ (clients'[i].active /\ ~clients[i].active) =>
                /\ Framing(clients'[i]) = Framing(NoClient)
                /\ h_ref'[i] = RefIdle
          /\ (n_read' # n_read /\ clients'[i].active) =>
                /\ h_delivered'[i] = SelectSeq(h_ref'[i].out, FitsMtu)
                /\ clients'[i].in_frame = h_ref'[i].inf
                /\ clients'[i].escape = h_ref'[i].esc
                /\ clients'[i].rxbuf = TakeBytes(h_ref'[i].cur, TCP_IF_HW_MTU)
                /\ ~h_ref'[i].inf => clients'[i].rxlen = 0]_vars

\* a connection placed in the first slot, in which stop() had left a frame
\* that had outgrown the buffer, with an escape pending
C37_Witness ==
    /\ clients[0].active
    /\ h_loop.found.truncated
    /\ h_loop.found.escape
    /\ h_loop.found.rxlen = TCP_IF_HW_MTU
    /\ Framing(clients[0]) = Framing(NoClient)


\* C38: the stuffing loop of send_outgoing leaves flen, the closing flag
\* counted, within the size of frame_buf whatever the payload; the frame
\* carries the payload bytes the loop took, and for a payload of at most
\* TCP_IF_HW_MTU bytes it took them all.
C38_FrameFitsBuffer ==
    h_round.state = "framed" =>
        /\ h_round.flen <= FRAME_BUF_SIZE
        /\ h_round.flen < U16
        /\ h_round.taken <= PayLen(h_round.payload)
        /\ h_round.carried = <<TakeBytes(h_round.payload, h_round.taken)>>
        /\ PayLen(h_round.payload) <= TCP_IF_HW_MTU =>
              /\ h_round.taken = PayLen(h_round.payload)
              /\ h_round.carried = <<h_round.payload>>

\* a payload of TCP_IF_HW_MTU flag bytes, framed whole in two bytes less
\* than the buffer holds
C38_Witness ==
    /\ h_round.state = "framed"
    /\ h_round.payload = <<[b |-> HDLC_FLAG, n |-> TCP_IF_HW_MTU]>>
    /\ h_round.taken = TCP_IF_HW_MTU
    /\ h_round.flen = FRAME_BUF_SIZE - 2

\* a payload of twice the MTU in flag bytes, cut by the safety break at the
\* same length
C38_CutWitness ==
    /\ h_round.state = "framed"
    /\ h_round.payload = <<[b |-> HDLC_FLAG, n |-> 2 * TCP_IF_HW_MTU]>>
    /\ h_round.taken = TCP_IF_HW_MTU
    /\ h_round.flen = FRAME_BUF_SIZE - 2


\* C39: in client role a pass of the loop makes a connection attempt only
\* with no connection active and with at least _reconnect_interval gone by
\* since _last_reconnect, which is the time of the last attempt or WiFi-down
\* check and of nothing else; _reconnect_interval is always within
\* TCP_IF_RECONNECT_MIN .. TCP_IF_RECONNECT_MAX; and a pass that finds WiFi
\* down leaves the interval and the failure counter as they are.
C39_ReconnectPaced ==
    [][/\ reconnect_interval \in TCP_IF_RECONNECT_MIN .. TCP_IF_RECONNECT_MAX
       /\ reconnect_interval' \in TCP_IF_RECONNECT_MIN .. TCP_IF_RECONNECT_MAX
       /\ (started /\ (h_loop'.attempt.made \/ h_loop'.skipped)) =>
             /\ mode = TCP_IF_MODE_CLIENT
             /\ num_clients = 0
             /\ \A i \in Slots : ~clients[i].active
             /\ now - last_reconnect >= reconnect_interval
       /\ (h_loop'.attempt.made \/ h_loop'.skipped) => last_reconnect' = now'
       /\ last_reconnect' # last_reconnect =>
             (h_loop'.attempt.made \/ h_loop'.skipped)
       /\ h_loop'.skipped =>
             /\ reconnect_interval' = reconnect_interval
             /\ consecutive_failures' = consecutive_failures
             /\ h_connect' = h_connect
             /\ num_clients' = 0]_vars

\* the third failed attempt in a row: the next one is due eight times
\* TCP_IF_RECONNECT_MIN later
C39_Witness ==
    /\ started
    /\ h_loop.attempt.made
    /\ h_connect.calls = 3
    /\ consecutive_failures = 3
    /\ reconnect_interval = 8 * TCP_IF_RECONNECT_MIN
    /\ last_reconnect = now
    /\ num_clients = 0

\* a pass that found WiFi down after two failed attempts
C39_SkipWitness ==
    /\ h_loop.skipped
    /\ consecutive_failures = 2
    /\ reconnect_interval = 4 * TCP_IF_RECONNECT_MIN
    /\ last_reconnect = now


\* C40: with the read timeout enabled, a pass of loop() leaves no
\* connection active from which no byte was read for more than
\* _read_timeout ms, whatever the 32-bit clock showed at its last activity.
C40_SilentTornDown ==
    (h_loop.pass /\ read_timeout > 0) =>
        \A i \in Slots :
            clients[i].active =>
                ~gt32(sub32(now, clients[i].last_activity), read_timeout)

\* the part of C40 that holds: a pass tears down for read timeout only a
\* connection whose last byte, or whose accept, is more than _read_timeout
\* ms back on the 32-bit clock, through the wrap as well
C40_RecentKept ==
    [][h_loop'.pass =>
          \A i \in h_loop'.timed_out :
              \/ ~clients[i].connected
              \/ gt32(sub32(now, clients[i].last_activity), read_timeout)]_vars

\* a connection last active before 2^32 and torn down after it
C40_WrapWitness ==
    /\ h_loop.pass
    /\ h_loop.timed_out # {}
    /\ now.hi = 0
============================================================================
